---- MODULE Spec2Model ----
(***************************************************************************)
(* Model of the clipboard-history store of ForeverClipboard                *)
(* (src/clipboard-app-for-mac/clipboard_storage.py) and of its clipboard   *)
(* monitor thread (src/clipboard-app-for-mac/clipboard_manager_gui.py).    *)
(*                                                                         *)
(* Text is a sequence of Unicode code points (97 is "a", 65 is "A",       *)
(* 32 is the space, 10 is "\n", 37 is "%", 95 is "_", 46 is ".",         *)
(* 233 is e-acute, which takes two bytes in UTF-8).                       *)
(*                                                                         *)
(* The table clipboard_entries is the function `rows` from the live ids to *)
(* their rows; `seq` is SQLite's sqlite_sequence counter of the             *)
(* AUTOINCREMENT column; `now` is the clock CURRENT_TIMESTAMP reads (one    *)
(* second resolution, so two writes can carry the same timestamp).         *)
(* `leaked` says that a connection the store opened and never closed is    *)
(* still alive with its write transaction open: it keeps SQLite's write    *)
(* lock until the Python garbage collector finalises it.                   *)
(* `uncommitted` holds the table as that connection has written it, when   *)
(* its operation raised after its write statement: <<table>>, else <<>>.   *)
(* `call` records the last operation: its arguments, what it returned and  *)
(* the table, counter and lock it started from; `issued` lists, in order, the    *)
(* ids INSERT has given out since the database was created.               *)
(***************************************************************************)
EXTENDS Integers, Sequences, FiniteSets, TLC

VARIABLES rows, seq, now, leaked, issued, call, uncommitted

\* The clipboard monitor (ClipboardMonitorThread of clipboard_manager_gui.py).
\* `clipboard` is what pyperclip.paste() would return; `running` and
\* `last_content` are the thread object's fields; `pc` is where the thread
\* is and `stop_pc` where a call of stop() is; `emitted` lists the values
\* clipboard_changed was emitted with.  `copies` counts the changes of the
\* clipboard; `base` records the baseline read, `poll` the last read of the
\* loop and `check` the last test of the loop condition.  `queue` holds the
\* emitted signals the GUI thread has not handled yet, and `taken` the
\* non-blank values the clipboard has changed to since the baseline read.
VARIABLES clipboard, running, last_content, pc, stop_pc, emitted, copies,
          base, poll, check, queue, taken

\* `recopy` is the history entry that the window last put back on the
\* clipboard (double click, context menu or Ctrl+C): its id and content.
VARIABLE recopy

\* The single-instance lock (SingleInstanceLock and main() of
\* clipboard_manager_gui.py), for application processes started one after
\* the other or together.  `lockfile` is the lock file in the temporary
\* directory: "absent", or its content and the inode that holds it;
\* `ppc[p]` is where process p is, `fd[p]` the inode its open file object
\* writes to, `lock_acquired[p]` the field of its lock object; `acq[p]` and
\* `rel[p]` record what its calls of acquire() and release() saw and did.
VARIABLES lockfile, ppc, fd, lock_acquired, acq, rel

\* The window of process 1 (ClipboardManagerGUI): `storage` is how
\* ClipboardStorage() ended in __init__, `window` whether the main window is
\* shown, `cleanups` the number of completed runs of cleanup_and_quit.
VARIABLE app

\* The settings (SettingsManager of settings_manager.py).  `settings` is the
\* dict self.settings and `default_settings` holds the two list objects of
\* self.default_settings, which dict.copy() shares with `settings`;
\* `config_file` tells whether the last write of the file went through, and
\* `scall` records the last operation.
VARIABLES settings, default_settings, config_file, scall

settingsVars == <<settings, default_settings, config_file, scall>>

\* `export` records the last run of export_clipboard_data
\* (clipboard_manager_gui.py): how it ended, the document it wrote and the
\* table it started from.  `derived` records the last evaluation of the
\* store's two pure helpers, _create_preview and _detect_content_type: the
\* arguments and the values returned.
VARIABLES export, derived

storeVars == <<rows, seq, now, leaked, issued, call, uncommitted>>

lockVars == <<lockfile, ppc, fd, lock_acquired, acq, rel, app>>

monitorVars == <<clipboard, running, last_content, pc, stop_pc, emitted, copies,
                 base, poll, check, queue, taken, recopy>>

vars == <<rows, seq, now, leaked, issued, call, uncommitted,
          clipboard, running, last_content, pc, stop_pc, emitted, copies,
          base, poll, check, queue, taken, recopy,
          lockfile, ppc, fd, lock_acquired, acq, rel, app,
          settings, default_settings, config_file, scall, export, derived>>

(***************************************************************************)
(* Bounds of the model.                                                    *)
(***************************************************************************)
\* Number of rows ever inserted.
MaxId == 2
\* Last second of the clock.
MaxTime == 1
\* Number of times the clipboard changes.
MaxCopies == 3

(***************************************************************************)
(* Program constants.                                                      *)
(***************************************************************************)
\* _create_preview(self, content, max_length = 50)
PreviewMaxLength == 50
\* get_all_entries(self, limit = 1000)
GetAllDefaultLimit == 1000
\* search_entries(self, query, limit = 100)
SearchDefaultLimit == 100
\* get_storage_size_mb: total_bytes / (1024 * 1024)
BytesPerMb == 1048576

(***************************************************************************)
(* Text helpers.                                                           *)
(***************************************************************************)
\* n copies of the code point c
Rep(c, n) == [i \in 1..n |-> c]

\* str.isspace() of one character
IsSpace(c) ==
    c \in (9..13) \cup (28..32) \cup {133, 160, 5760} \cup (8192..8202)
          \cup {8232, 8233, 8239, 8287, 12288}

\* IsBlank without the strip(): `not content` alone
IsBlankEmptyOnly(content) == content = <<>>

\* `not content or not content.strip()`
IsBlank(content) == \A i \in 1..Len(content) : IsSpace(content[i])

\* content.startswith(prefix)
StartsWith(content, prefix) ==
    /\ Len(content) >= Len(prefix)
    /\ SubSeq(content, 1, Len(prefix)) = prefix

\* content.encode('utf-8') of one code point
Utf8Char(c) ==
    IF c < 128 THEN <<c>>
    ELSE IF c < 2048 THEN <<192 + (c \div 64), 128 + (c % 64)>>
    ELSE IF c < 65536
         THEN <<224 + (c \div 4096), 128 + ((c \div 64) % 64), 128 + (c % 64)>>
    ELSE <<240 + (c \div 262144), 128 + ((c \div 4096) % 64),
           128 + ((c \div 64) % 64), 128 + (c % 64)>>

RECURSIVE Utf8(_)
Utf8(content) ==
    IF content = <<>> THEN <<>>
    ELSE Utf8Char(Head(content)) \o Utf8(Tail(content))

\* hashlib.md5(bytes).hexdigest(): MD5 is taken as collision-free, so the
\* digest is a tagged copy of the bytes it was computed from.
Md5Hex(bytes) == <<"md5", bytes>>

\* str.splitlines() line boundaries
IsLineBreak(c) == c \in {10, 11, 12, 13, 28, 29, 30, 133, 8232, 8233}

\* len(content.splitlines()): "\r\n" is one boundary, and a boundary at the
\* very end of the text opens no further line.
RECURSIVE LineCount(_)
LineCount(content) ==
    IF content = <<>> THEN 0
    ELSE LET brk == { i \in 1..Len(content) : IsLineBreak(content[i]) }
         IN  IF brk = {} THEN 1
             ELSE LET i == CHOOSE k \in brk : \A j \in brk : k <= j
                      crlf == /\ content[i] = 13
                              /\ i < Len(content)
                              /\ content[i + 1] = 10
                      next == IF crlf THEN i + 2 ELSE i + 1
                  IN  1 + LineCount(SubSeq(content, next, Len(content)))

\* str.rfind(' '): the 0-based index of the last space, -1 when there is none
RFindSpace(s) ==
    LET at == { i \in 1..Len(s) : s[i] = 32 }
    IN  IF at = {} THEN -1
        ELSE (CHOOSE k \in at : \A j \in at : j <= k) - 1

(***************************************************************************)
(* Classifier.                                                             *)
(***************************************************************************)
HttpPrefix == <<104, 116, 116, 112, 58, 47, 47>>
HttpsPrefix == <<104, 116, 116, 112, 115, 58, 47, 47>>
FilePrefix == <<102, 105, 108, 101, 58, 47, 47>>
\* the truncation marker "..."
Ellipsis == <<46, 46, 46>>

\* _detect_content_type with the test for lines ahead of the prefix tests
DetectContentTypeLinesFirst(content) ==
    IF LineCount(content) > 1 THEN "multiline"
    ELSE IF StartsWith(content, HttpPrefix) \/ StartsWith(content, HttpsPrefix)
    THEN "url"
    ELSE IF StartsWith(content, FilePrefix) THEN "file"
    ELSE "text"

\* ClipboardStorage._detect_content_type
DetectContentType(content) ==
    IF StartsWith(content, HttpPrefix) \/ StartsWith(content, HttpsPrefix)
    THEN "url"
    ELSE IF StartsWith(content, FilePrefix) THEN "file"
    ELSE IF LineCount(content) > 1 THEN "multiline"
    ELSE "text"

Minimum(a, b) == IF a <= b THEN a ELSE b

\* s[:n]: the first n items, and for a negative n all but the last -n
PrefixSlice(s, n) ==
    IF n >= 0 THEN SubSeq(s, 1, Minimum(n, Len(s)))
    ELSE SubSeq(s, 1, Len(s) + n)

\* the least of p, 2p, 4p, ... that is at least n
RECURSIVE DoubledUpTo(_, _)
DoubledUpTo(p, n) == IF p >= n THEN p ELSE DoubledUpTo(2 * p, n)

\* max_length * 0.7 is a product of doubles, rounded to the nearest double.
\* The double 0.7 lies 0.4 * 2^-53 below 7/10, so when 7 * max_length / 10
\* is an integer N in the upper eighth of its binade (8N > 7 * 2^e for the
\* least 2^e >= N) the product rounds to the double just below N; in every
\* other case it compares with an integer as the exact 7 * max_length / 10.
ProductBelowExact(max_length) ==
    /\ max_length > 0
    /\ max_length % 10 = 0
    /\ LET n == (7 * max_length) \div 10
       IN  8 * n > 7 * DoubledUpTo(1, n)

\* last_space > max_length * 0.7
OverSeventyPercent(last_space, max_length) ==
    IF ProductBelowExact(max_length)
    THEN 10 * last_space >= 7 * max_length
    ELSE 10 * last_space > 7 * max_length

\* ClipboardStorage._create_preview
CreatePreview(content, max_length) ==
    IF Len(content) <= max_length THEN content
    ELSE LET preview == PrefixSlice(content, max_length)
             last_space == RFindSpace(preview)
         IN  IF OverSeventyPercent(last_space, max_length)
             THEN PrefixSlice(preview, last_space) \o Ellipsis
             ELSE preview \o Ellipsis

(***************************************************************************)
(* The values the store derives from a content (add_clipboard_entry lines  *)
(* 53-56, update_entry_content lines 170-173).                             *)
(***************************************************************************)
ContentHash(content) == Md5Hex(Utf8(content))
SizeBytes(content) == Len(Utf8(content))

(***************************************************************************)
(* Inputs of the model.                                                    *)
(***************************************************************************)
\* "ab"
TextLower == <<97, 98>>
\* "AB"
TextUpper == <<65, 66>>
\* "http://<e-acute>\n", thirty-one "x", a space, twenty "y": a URL that spans two
\* lines, is longer than a preview, has a word break in reach of the cut, and
\* takes one byte more than it has characters
TextLong == HttpPrefix \o <<233, 10>> \o Rep(120, 31) \o <<32>> \o Rep(121, 20)
\* the empty text, and " \n"
Blanks == {<<>>, <<32, 10>>}
Contents == {TextLower, TextUpper, TextLong}
\* "b", "_", "%", "...", "z"
Queries == {<<98>>, <<95>>, <<37>>, Ellipsis, <<122>>}
\* the limits given to get_all_entries, and those given to search_entries
Limits == {-1, 0, 1, GetAllDefaultLimit}
SearchLimits == {1, SearchDefaultLimit}
\* the ids a caller may name: every id the table can hold, and one it never holds
Ids == 1..(MaxId + 1)

(***************************************************************************)
(* The table.                                                              *)
(***************************************************************************)
\* A row of clipboard_entries as add and update compute it.
MakeRow(id, content, timestamp) ==
    [id |-> id,
     content |-> content,
     content_hash |-> ContentHash(content),
     preview |-> CreatePreview(content, PreviewMaxLength),
     timestamp |-> timestamp,
     size_bytes |-> SizeBytes(content),
     content_type |-> DetectContentType(content)]

\* SELECT id FROM clipboard_entries WHERE content_hash = ?
IdsWithHash(table, hash) == { i \in DOMAIN table : table[i].content_hash = hash }

\* UniqueViolation for a schema whose content_hash column is not UNIQUE
UniqueViolationNoConstraint(table, id, hash) == FALSE

\* content_hash TEXT UNIQUE: the statement that would leave `id` with a hash
\* another row holds raises IntegrityError.
UniqueViolation(table, id, hash) ==
    \E j \in DOMAIN table : j # id /\ table[j].content_hash = hash

\* NextId for a plain INTEGER PRIMARY KEY: one more than the largest live id
NextIdMaxRowid(table, counter) ==
    IF DOMAIN table = {} THEN 1
    ELSE (CHOOSE k \in DOMAIN table : \A j \in DOMAIN table : j <= k) + 1

\* id INTEGER PRIMARY KEY AUTOINCREMENT: one more than the largest id the
\* table ever held, which sqlite_sequence remembers.
NextId(table, counter) == counter + 1

\* The record of a call; the fields an operation does not use keep these values.
NoCall ==
    [op |-> "init", content |-> <<>>, id |-> 0, limit |-> 0, ok |-> TRUE,
     result |-> <<>>, pre |-> <<>>, preSeq |-> 0, preLeaked |-> FALSE, at |-> 0,
     failed |-> FALSE, raised |-> FALSE]

Called(op, content, id, limit, ok, result) ==
    [op |-> op, content |-> content, id |-> id, limit |-> limit, ok |-> ok,
     result |-> result, pre |-> rows, preSeq |-> seq, preLeaked |-> leaked,
     at |-> now, failed |-> FALSE, raised |-> FALSE]

\* `forwarded`: on_clipboard_changed has handed that content to the store
NoRecopy == [id |-> 0, content |-> <<>>, forwarded |-> FALSE]

NoRead == [read |-> "none", value |-> <<>>, prev |-> <<>>, events |-> <<>>,
           changed |-> FALSE, copies |-> 0]

\* ClipboardMonitorThread.__init__, and nobody has called start() or stop()
\* the application processes of the model, named by their process ids
Procs == {1, 2}
\* the process id of a process that ended before the model starts
DeadPid == 9

\* The lock file: whether it exists, what int(f.read().strip()) makes of
\* its content ("pid": the number `pid`; "empty" and "garbage": ValueError)
\* and the inode that holds the content.
Absent == [exists |-> FALSE, kind |-> "none", pid |-> 0, ino |-> 0]
LockFileOf(kind, pid, ino) == [exists |-> TRUE, kind |-> kind, pid |-> pid, ino |-> ino]

NoAcquire == [read |-> Absent, running |-> FALSE, removed |-> FALSE,
              result |-> "none", left |-> Absent, disturbed |-> FALSE]
NoApp == [storage |-> "none", window |-> "none", cleanups |-> 0]

NoRelease == [path |-> "none", called |-> FALSE, returned |-> FALSE,
              left |-> Absent]

(***************************************************************************)
(* The settings dict.  A list-valued setting is a reference: `shared` when *)
(* it is the list object that default_settings holds, else a list object   *)
(* of its own with the given items.                                        *)
(***************************************************************************)
\* recent_searches[:20] of add_recent_search
RecentSearchesCap == 20

ListKeys == {"recent_searches", "favorite_entries"}

\* self.default_settings, the list-valued keys apart
DefaultSettings ==
    [max_entries |-> 10000, max_content_size_mb |-> 100, auto_start |-> FALSE,
     minimize_to_tray |-> TRUE, check_interval_ms |-> 500,
     enable_notifications |-> TRUE, theme |-> "system", font_size |-> 12,
     window_width |-> 1200, window_height |-> 800,
     splitter_position |-> <<400, 800>>]

DefaultKeys == DOMAIN DefaultSettings \cup ListKeys

SharedList == [shared |-> TRUE, items |-> <<>>]
OwnList(items) == [shared |-> FALSE, items |-> items]

\* self.default_settings.copy(): a shallow copy, the lists are not copied
DefaultSettingsCopy ==
    [k \in DefaultKeys |-> IF k \in ListKeys THEN SharedList
                           ELSE DefaultSettings[k]]

\* the list a list-valued setting refers to
ListOf(dict, defaults, key) ==
    IF dict[key].shared THEN defaults[key] ELSE dict[key].items

\* search terms: the i-th term of the model, and the list of the n newest
\* terms 1..n, newest first
Term(i) == <<96 + i>>
Run(n) == [i \in 1..n |-> Term(n + 1 - i)]
\* lengths around the cap
RunLengths == {0, RecentSearchesCap - 1, RecentSearchesCap, RecentSearchesCap + 1}
\* and a list that holds a term twice, as set_setting or the file can give
RecentLists == { Run(n) : n \in RunLengths } \cup {<<Term(1), Term(1)>>}
\* a term that every non-empty list of RecentLists ends with, a term that
\* none holds, and two blank terms
SearchTerms == {Term(1), Term(RecentSearchesCap + 2), <<>>, <<32>>}
FavoriteIds == {1}
FavoriteLists == {<<>>, <<1>>}

NoSettingsCall ==
    [op |-> "none", arg |-> <<>>, result |-> TRUE, before |-> <<>>]

\* SettingsManager() on a first run: no file yet, the defaults are written
SettingsConstructed ==
    /\ settings = DefaultSettingsCopy
    /\ default_settings = [k \in ListKeys |-> <<>>]
    /\ config_file = "current"
    /\ scall = NoSettingsCall

\* export_clipboard_data has not run; neither helper has been evaluated
NoExport == [state |-> "none", document |-> <<>>, pre |-> <<>>]
NoDerived ==
    [op |-> "none", content |-> <<>>, max_length |-> 0, preview |-> <<>>,
     content_type |-> "none"]

\* no process has been launched; the lock file is as an earlier run left it
NoInstance ==
    /\ lockfile = Absent
    /\ ppc = [p \in Procs |-> "new"]
    /\ app = NoApp
    /\ fd = [p \in Procs |-> 0]
    /\ lock_acquired = [p \in Procs |-> FALSE]
    /\ acq = [p \in Procs |-> NoAcquire]
    /\ rel = [p \in Procs |-> NoRelease]

MonitorConstructed ==
    /\ running = FALSE
    /\ last_content = <<>>
    /\ pc = "new"
    /\ stop_pc = "idle"
    /\ emitted = <<>>
    /\ copies = 0
    /\ base = NoRead
    /\ poll = NoRead
    /\ check = [seen |-> "none", stop_set |-> FALSE]
    /\ queue = <<>>
    /\ taken = {}

Init ==
    /\ rows = <<>>
    /\ seq = 0
    /\ now = 0
    /\ leaked = FALSE
    /\ issued = <<>>
    /\ call = NoCall
    /\ uncommitted = <<>>
    /\ MonitorConstructed /\ recopy = NoRecopy
    /\ export = NoExport
    /\ derived = NoDerived
    /\ SettingsConstructed
    /\ NoInstance
    /\ clipboard = <<>>

\* add_clipboard_entry with UPDATE ... SET timestamp lacking its WHERE clause
AddClipboardEntryTouchesAll(content) ==
    LET existing == IdsWithHash(rows, ContentHash(content))
    IN
    IF IsBlank(content) \/ leaked
    THEN /\ call' = Called("add", content, 0, 0, FALSE, <<>>)
         /\ UNCHANGED <<export, derived, settingsVars, lockVars, monitorVars, uncommitted, rows, seq, now, leaked, issued>>
    ELSE IF existing # {}
    THEN /\ rows' = [i \in DOMAIN rows |-> [rows[i] EXCEPT !.timestamp = now]]
         /\ call' = Called("add", content, CHOOSE i \in existing : TRUE, 0,
                           TRUE, <<>>)
         /\ UNCHANGED <<export, derived, settingsVars, lockVars, monitorVars, uncommitted, seq, now, leaked, issued>>
    ELSE LET id == seq + 1
         IN  /\ id <= MaxId
             /\ rows' = [i \in DOMAIN rows \cup {id} |->
                           IF i = id THEN MakeRow(id, content, now) ELSE rows[i]]
             /\ seq' = id
             /\ issued' = Append(issued, id)
             /\ call' = Called("add", content, id, 0, TRUE, <<>>)
             /\ UNCHANGED <<export, derived, settingsVars, lockVars, monitorVars, uncommitted, now, leaked>>

(***************************************************************************)
(* ClipboardStorage.add_clipboard_entry                                    *)
(***************************************************************************)
\* add_clipboard_entry: what it does to the store
AddClipboardEntryInStore(content) ==
    LET existing == IdsWithHash(rows, ContentHash(content))
    IN
    IF IsBlank(content)
    THEN \* rejected before the database is opened
         /\ call' = Called("add", content, 0, 0, FALSE, <<>>)
         /\ UNCHANGED <<rows, seq, now, leaked, issued, uncommitted>>
    ELSE IF leaked
    THEN \* the UPDATE or INSERT cannot take the write lock: "database is
         \* locked" is caught and False returned
         /\ call' = Called("add", content, 0, 0, FALSE, <<>>)
         /\ UNCHANGED <<rows, seq, now, leaked, issued, uncommitted>>
    ELSE IF existing # {}
    THEN \* UPDATE ... SET timestamp = CURRENT_TIMESTAMP WHERE id = existing[0]
         LET id == CHOOSE i \in existing : TRUE
         IN  /\ rows' = [rows EXCEPT ![id].timestamp = now]
             /\ call' = Called("add", content, id, 0, TRUE, <<>>)
             /\ UNCHANGED <<seq, now, leaked, issued, uncommitted>>
    ELSE \* INSERT: the id comes from the AUTOINCREMENT counter and the
         \* timestamp from the column default
         LET id == NextId(rows, seq)
         IN  /\ id <= MaxId
             /\ rows' = [i \in DOMAIN rows \cup {id} |->
                           IF i = id THEN MakeRow(id, content, now) ELSE rows[i]]
             /\ seq' = id
             /\ issued' = Append(issued, id)
             /\ call' = Called("add", content, id, 0, TRUE, <<>>)
             /\ UNCHANGED <<now, leaked, uncommitted>>

\* add_clipboard_entry called on its own
AddClipboardEntry(content) ==
    /\ AddClipboardEntryInStore(content)
    /\ UNCHANGED <<monitorVars, lockVars, settingsVars, export, derived>>

(***************************************************************************)
(* Variants of update_entry_content, each with one plausible slip.         *)
(***************************************************************************)
\* UPDATE OR REPLACE: the row that holds the new hash is dropped and the
\* update goes through
UpdateOrReplace(entry_id, new_content) ==
    IF IsBlank(new_content) \/ entry_id \notin DOMAIN rows \/ leaked
    THEN /\ call' = Called("update", new_content, entry_id, 0, FALSE, <<>>)
         /\ UNCHANGED <<export, derived, settingsVars, lockVars, monitorVars, uncommitted, rows, seq, now, leaked, issued>>
    ELSE LET hash == ContentHash(new_content)
             keep == { i \in DOMAIN rows :
                         i = entry_id \/ rows[i].content_hash # hash }
         IN  /\ rows' = [i \in keep |->
                           IF i = entry_id
                           THEN MakeRow(i, new_content, rows[i].timestamp)
                           ELSE rows[i]]
             /\ call' = Called("update", new_content, entry_id, 0, TRUE, <<>>)
             /\ UNCHANGED <<export, derived, settingsVars, lockVars, monitorVars, uncommitted, seq, now, leaked, issued>>

\* the UPDATE statement without `preview = ?`
UpdateEntryContentStalePreview(entry_id, new_content) ==
    IF IsBlank(new_content) \/ entry_id \notin DOMAIN rows \/ leaked
    THEN /\ call' = Called("update", new_content, entry_id, 0, FALSE, <<>>)
         /\ UNCHANGED <<export, derived, settingsVars, lockVars, monitorVars, uncommitted, rows, seq, now, leaked, issued>>
    ELSE IF UniqueViolation(rows, entry_id, ContentHash(new_content))
    THEN /\ leaked' = TRUE
         /\ call' = Called("update", new_content, entry_id, 0, FALSE, <<>>)
         /\ UNCHANGED <<export, derived, settingsVars, lockVars, monitorVars, uncommitted, rows, seq, now, issued>>
    ELSE /\ rows' = [rows EXCEPT ![entry_id] =
                        [MakeRow(entry_id, new_content, rows[entry_id].timestamp)
                           EXCEPT !.preview = rows[entry_id].preview]]
         /\ call' = Called("update", new_content, entry_id, 0, TRUE, <<>>)
         /\ UNCHANGED <<export, derived, settingsVars, lockVars, monitorVars, uncommitted, seq, now, leaked, issued>>

\* without the `if not old_entry` test: the UPDATE of an unknown id touches
\* no row, is committed, and True is returned
UpdateEntryContentNoLookup(entry_id, new_content) ==
    IF IsBlank(new_content) \/ leaked
    THEN /\ call' = Called("update", new_content, entry_id, 0, FALSE, <<>>)
         /\ UNCHANGED <<export, derived, settingsVars, lockVars, monitorVars, uncommitted, rows, seq, now, leaked, issued>>
    ELSE IF /\ entry_id \in DOMAIN rows
            /\ UniqueViolation(rows, entry_id, ContentHash(new_content))
    THEN /\ leaked' = TRUE
         /\ call' = Called("update", new_content, entry_id, 0, FALSE, <<>>)
         /\ UNCHANGED <<export, derived, settingsVars, lockVars, monitorVars, uncommitted, rows, seq, now, issued>>
    ELSE /\ rows' = [i \in DOMAIN rows |->
                       IF i = entry_id
                       THEN MakeRow(i, new_content, rows[i].timestamp)
                       ELSE rows[i]]
         /\ call' = Called("update", new_content, entry_id, 0, TRUE, <<>>)
         /\ UNCHANGED <<export, derived, settingsVars, lockVars, monitorVars, uncommitted, seq, now, leaked, issued>>

(***************************************************************************)
(* ClipboardStorage.update_entry_content                                   *)
(***************************************************************************)
UpdateEntryContent(entry_id, new_content) ==
    IF IsBlank(new_content)
    THEN \* rejected before the database is opened
         /\ call' = Called("update", new_content, entry_id, 0, FALSE, <<>>)
         /\ UNCHANGED <<export, derived, settingsVars, lockVars, monitorVars, uncommitted, rows, seq, now, leaked, issued>>
    ELSE IF entry_id \notin DOMAIN rows
    THEN \* `if not old_entry`: the connection is closed, False returned
         /\ call' = Called("update", new_content, entry_id, 0, FALSE, <<>>)
         /\ UNCHANGED <<export, derived, settingsVars, lockVars, monitorVars, uncommitted, rows, seq, now, leaked, issued>>
    ELSE IF leaked
    THEN \* "database is locked" is caught and False returned
         /\ call' = Called("update", new_content, entry_id, 0, FALSE, <<>>)
         /\ UNCHANGED <<export, derived, settingsVars, lockVars, monitorVars, uncommitted, rows, seq, now, leaked, issued>>
    ELSE IF UniqueViolation(rows, entry_id, ContentHash(new_content))
    THEN \* IntegrityError is caught and False returned; the except branch
         \* neither rolls back nor closes, so the connection stays open
         \* inside its write transaction
         /\ leaked' = TRUE
         /\ call' = Called("update", new_content, entry_id, 0, FALSE, <<>>)
         /\ UNCHANGED <<export, derived, settingsVars, lockVars, monitorVars, uncommitted, rows, seq, now, issued>>
    ELSE \* UPDATE ... SET content, content_hash, preview, size_bytes,
         \* content_type WHERE id = ?: the timestamp column is not written
         /\ rows' = [rows EXCEPT ![entry_id] =
                        MakeRow(entry_id, new_content, rows[entry_id].timestamp)]
         /\ call' = Called("update", new_content, entry_id, 0, TRUE, <<>>)
         /\ UNCHANGED <<export, derived, settingsVars, lockVars, monitorVars, uncommitted, seq, now, leaked, issued>>

(***************************************************************************)
(* ClipboardStorage.delete_entry                                           *)
(***************************************************************************)
DeleteEntry(entry_id) ==
    IF leaked
    THEN /\ call' = Called("delete", <<>>, entry_id, 0, FALSE, <<>>)
         /\ UNCHANGED <<export, derived, settingsVars, lockVars, monitorVars, uncommitted, rows, seq, now, leaked, issued>>
    ELSE /\ rows' = [i \in DOMAIN rows \ {entry_id} |-> rows[i]]
         /\ call' = Called("delete", <<>>, entry_id, 0, TRUE, <<>>)
         /\ UNCHANGED <<export, derived, settingsVars, lockVars, monitorVars, uncommitted, seq, now, leaked, issued>>

(***************************************************************************)
(* ClipboardStorage.clear_all_entries                                      *)
(***************************************************************************)
\* clear_all_entries that reports success without deleting
ClearAllEntriesNoDelete ==
    /\ call' = Called("clear", <<>>, 0, 0, ~leaked, <<>>)
    /\ UNCHANGED <<export, derived, settingsVars, lockVars, monitorVars, uncommitted, rows, seq, now, leaked, issued>>

ClearAllEntries ==
    IF leaked
    THEN /\ call' = Called("clear", <<>>, 0, 0, FALSE, <<>>)
         /\ UNCHANGED <<export, derived, settingsVars, lockVars, monitorVars, uncommitted, rows, seq, now, leaked, issued>>
    ELSE /\ rows' = <<>>
         /\ call' = Called("clear", <<>>, 0, 0, TRUE, <<>>)
         /\ UNCHANGED <<export, derived, settingsVars, lockVars, monitorVars, uncommitted, seq, now, leaked, issued>>

(***************************************************************************)
(* Queries.                                                                *)
(***************************************************************************)
Range(f) == { f[i] : i \in DOMAIN f }

\* OrderByTimestampDesc with the order reversed: ORDER BY timestamp ASC
OrderByTimestampAsc(R) ==
    { s \in [1..Cardinality(R) -> R] :
        /\ \A i, j \in DOMAIN s : i # j => s[i] # s[j]
        /\ \A i \in DOMAIN s : i < Len(s) => s[i].timestamp <= s[i + 1].timestamp }

\* ORDER BY timestamp DESC: SQL fixes no order among rows of equal
\* timestamp, so every arrangement of them is a possible answer.
OrderByTimestampDesc(R) ==
    { s \in [1..Cardinality(R) -> R] :
        /\ \A i, j \in DOMAIN s : i # j => s[i] # s[j]
        /\ \A i \in DOMAIN s : i < Len(s) => s[i].timestamp >= s[i + 1].timestamp }

\* SELECT id, content, preview, timestamp, size_bytes, content_type, as the
\* dictionary built from each fetched row
SelectColumns(row) ==
    [id |-> row.id,
     content |-> row.content,
     preview |-> row.preview,
     timestamp |-> row.timestamp,
     size_bytes |-> row.size_bytes,
     content_type |-> row.content_type]

Entries(s) == [k \in DOMAIN s |-> SelectColumns(s[k])]

\* LIMIT ?: a negative limit is no limit in SQLite
SqlLimit(s, limit) ==
    IF limit < 0 \/ limit >= Len(s) THEN s ELSE SubSeq(s, 1, limit)

\* SQLite's LIKE folds the case of the ASCII letters only
FoldCase(c) == IF c \in 65..90 THEN c + 32 ELSE c

\* text LIKE pattern, as SQLite evaluates it without an ESCAPE clause:
\* "%" (37) matches any run of characters, "_" (95) any one character
RECURSIVE Like(_, _)
Like(text, pattern) ==
    IF pattern = <<>> THEN text = <<>>
    ELSE IF Head(pattern) = 37
    THEN \/ Tail(pattern) = <<>>
         \/ \E k \in 0..Len(text) :
               Like(SubSeq(text, k + 1, Len(text)), Tail(pattern))
    ELSE /\ text # <<>>
         /\ Head(pattern) = 95 \/ FoldCase(Head(pattern)) = FoldCase(Head(text))
         /\ Like(Tail(text), Tail(pattern))

\* WHERE content LIKE ? OR preview LIKE ?, both bound to f'%{query}%'
SearchMatches(row, query) ==
    LET pattern == <<37>> \o query \o <<37>>
    IN  Like(row.content, pattern) \/ Like(row.preview, pattern)

\* the answers get_all_entries(limit) can give
GetAllResults(table, limit) ==
    { Entries(SqlLimit(s, limit)) : s \in OrderByTimestampDesc(Range(table)) }

\* search_entries with the matches taken oldest first
SearchResultsOldestFirst(table, query, limit) ==
    IF IsBlank(query) THEN GetAllResults(table, limit)
    ELSE { Entries(SqlLimit(s, limit)) :
             s \in OrderByTimestampAsc(
                     { r \in Range(table) : SearchMatches(r, query) }) }

\* the answers search_entries(query, limit) can give
SearchResults(table, query, limit) ==
    IF IsBlank(query) THEN GetAllResults(table, limit)
    ELSE { Entries(SqlLimit(s, limit)) :
             s \in OrderByTimestampDesc(
                     { r \in Range(table) : SearchMatches(r, query) }) }

\* get_entry_by_id: the row as a one-element sequence, the empty sequence
\* for None
GetEntryByIdResult(table, entry_id) ==
    IF entry_id \in DOMAIN table THEN <<SelectColumns(table[entry_id])>>
    ELSE <<>>

\* get_total_entries: SELECT COUNT(*)
GetTotalEntriesResult(table) == Cardinality(DOMAIN table)

\* SELECT SUM(size_bytes): NULL (here <<>>) over an empty table, else <<sum>>
RECURSIVE SumSizeBytes(_, _)
SumSizeBytes(table, ids) ==
    IF ids = {} THEN 0
    ELSE LET i == CHOOSE j \in ids : TRUE
         IN  table[i].size_bytes + SumSizeBytes(table, ids \ {i})

SqlSumSizeBytes(table) ==
    IF DOMAIN table = {} THEN <<>> ELSE <<SumSizeBytes(table, DOMAIN table)>>

\* a Python float that is the quotient of two integers, kept as the reduced
\* fraction <<numerator, denominator>>; 0.0 is <<0, 1>>
RECURSIVE Gcd(_, _)
Gcd(a, b) == IF b = 0 THEN a ELSE Gcd(b, a % b)

Quotient(n, d) == <<n \div Gcd(n, d), d \div Gcd(n, d)>>

FloatZero == Quotient(0, 1)

\* get_storage_size_mb: total_bytes = fetchone()[0] or 0, returned as
\* total_bytes / (1024 * 1024)
GetStorageSizeMbResult(table) ==
    LET total == SqlSumSizeBytes(table)
        total_bytes == IF total = <<>> \/ total = <<0>> THEN 0 ELSE total[1]
    IN  Quotient(total_bytes, BytesPerMb)

GetAllEntries(limit) ==
    /\ \E r \in GetAllResults(rows, limit) :
          call' = Called("get_all", <<>>, 0, limit, TRUE, r)
    /\ UNCHANGED <<export, derived, settingsVars, lockVars, monitorVars, uncommitted, rows, seq, now, leaked, issued>>

SearchEntries(query, limit) ==
    /\ \E r \in SearchResults(rows, query, limit) :
          call' = Called("search", query, 0, limit, TRUE, r)
    /\ UNCHANGED <<export, derived, settingsVars, lockVars, monitorVars, uncommitted, rows, seq, now, leaked, issued>>

\* get_entry_by_id that stamps the entry it returns with the time of the read
GetEntryByIdTouchesEntry(entry_id) ==
    /\ call' = Called("get_by_id", <<>>, entry_id, 0, TRUE,
                      GetEntryByIdResult(rows, entry_id))
    /\ rows' = IF entry_id \in DOMAIN rows
               THEN [rows EXCEPT ![entry_id].timestamp = now] ELSE rows
    /\ UNCHANGED <<export, derived, settingsVars, lockVars, monitorVars, uncommitted, seq, now, leaked, issued>>

GetEntryById(entry_id) ==
    /\ call' = Called("get_by_id", <<>>, entry_id, 0, TRUE,
                      GetEntryByIdResult(rows, entry_id))
    /\ UNCHANGED <<export, derived, settingsVars, lockVars, monitorVars, uncommitted, rows, seq, now, leaked, issued>>

\* get_total_entries
GetTotalEntries ==
    /\ call' = Called("count", <<>>, 0, 0, TRUE, GetTotalEntriesResult(rows))
    /\ UNCHANGED <<export, derived, settingsVars, lockVars, monitorVars, uncommitted, rows, seq, now, leaked, issued>>

\* get_storage_size_mb
GetStorageSizeMb ==
    /\ call' = Called("size_mb", <<>>, 0, 0, TRUE, GetStorageSizeMbResult(rows))
    /\ UNCHANGED <<export, derived, settingsVars, lockVars, monitorVars, uncommitted, rows, seq, now, leaked, issued>>

(***************************************************************************)
(* The operations when the backing store fails: sqlite3 raises somewhere   *)
(* between connect() and close(), inside the method's try block.  The      *)
(* except branch prints and returns the method's failure value; nothing    *)
(* was committed, so the table is as before; the connection is not closed  *)
(* and may be left holding a lock.                                         *)
(***************************************************************************)
\* an exception that no except branch catches leaves the method
Raised(op, content, id, limit) ==
    [Called(op, content, id, limit, FALSE, <<>>)
        EXCEPT !.failed = TRUE, !.raised = TRUE]

\* the method returned `ok` / `result` from its except branch
Caught(op, content, id, limit, ok, result) ==
    [Called(op, content, id, limit, ok, result) EXCEPT !.failed = TRUE]

\* nothing was committed; the connection left open may hold a lock
StoreFailure ==
    /\ leaked' \in {leaked, TRUE}
    /\ UNCHANGED <<export, derived, settingsVars, lockVars, monitorVars, uncommitted, rows, seq, now, issued>>

\* get_total_entries with the store failing outside any try block
GetTotalEntriesFailsUncaught ==
    /\ call' = Raised("count", <<>>, 0, 0)
    /\ StoreFailure

\* add_clipboard_entry, lines 58-82
AddClipboardEntryFails(content) ==
    /\ call' = Caught("add", content, 0, 0, FALSE, <<>>)
    /\ StoreFailure

\* get_all_entries, lines 86-114
GetAllEntriesFails(limit) ==
    /\ call' = Caught("get_all", <<>>, 0, limit, TRUE, <<>>)
    /\ StoreFailure

\* search_entries, lines 121-150; a blank query fails inside get_all_entries
SearchEntriesFails(query, limit) ==
    /\ call' = Caught("search", query, 0, limit, TRUE, <<>>)
    /\ StoreFailure

\* update_entry_content, lines 157-188
UpdateEntryContentFails(entry_id, new_content) ==
    /\ call' = Caught("update", new_content, entry_id, 0, FALSE, <<>>)
    /\ StoreFailure

\* get_entry_by_id, lines 192-218: None
GetEntryByIdFails(entry_id) ==
    /\ call' = Caught("get_by_id", <<>>, entry_id, 0, TRUE, <<>>)
    /\ StoreFailure

\* delete_entry, lines 222-234
DeleteEntryFails(entry_id) ==
    /\ call' = Caught("delete", <<>>, entry_id, 0, FALSE, <<>>)
    /\ StoreFailure

\* clear_all_entries, lines 238-250
ClearAllEntriesFails ==
    /\ call' = Caught("clear", <<>>, 0, 0, FALSE, <<>>)
    /\ StoreFailure

\* get_total_entries, lines 254-266
GetTotalEntriesFails ==
    /\ call' = Caught("count", <<>>, 0, 0, TRUE, 0)
    /\ StoreFailure

\* get_storage_size_mb, lines 270-282
GetStorageSizeMbFails ==
    /\ call' = Caught("size_mb", <<>>, 0, 0, TRUE, FloatZero)
    /\ StoreFailure

(***************************************************************************)
(* The environment: the clock, and the garbage collector that finalises a  *)
(* connection left open, which rolls its transaction back and frees the    *)
(* write lock.                                                             *)
(***************************************************************************)
Tick ==
    /\ now < MaxTime
    /\ now' = now + 1
    /\ UNCHANGED <<export, derived, settingsVars, lockVars, monitorVars, uncommitted, rows, seq, leaked, issued, call>>

\* the cyclic collector closes the connection that was left open: its lock is
\* released and what it had written without committing is rolled back
CollectGarbage ==
    /\ leaked
    /\ leaked' = FALSE
    /\ uncommitted' = <<>>
    /\ UNCHANGED <<export, derived, settingsVars, lockVars, monitorVars, rows, seq, now, issued, call>>

Next ==
    \/ \E c \in Contents \cup Blanks : AddClipboardEntry(c)
    \/ \E i \in Ids, c \in Contents \cup Blanks : UpdateEntryContent(i, c)
    \/ \E i \in Ids : DeleteEntry(i)
    \/ ClearAllEntries
    \/ \E i \in Ids : GetEntryById(i)
    \/ Tick
    \/ CollectGarbage

Spec == Init /\ [][Next]_vars

\* The store with every reading operation between the writing ones.
NextRead ==
    \/ \E c \in Contents : AddClipboardEntry(c)
    \/ \E i \in Ids, c \in Contents : UpdateEntryContent(i, c)
    \/ \E i \in Ids : DeleteEntry(i)
    \/ GetAllEntries(GetAllDefaultLimit)
    \/ \E q \in {<<98>>, <<>>} : SearchEntries(q, SearchDefaultLimit)
    \/ \E i \in Ids : GetEntryById(i)
    \/ GetTotalEntries
    \/ GetStorageSizeMb
    \/ Tick
    \/ CollectGarbage

SpecRead == Init /\ [][NextRead]_vars

\* The store as the history view drives it: entries arrive and are deleted,
\* and the list and the search box are answered from the table.
NextQuery ==
    \/ \E c \in Contents : AddClipboardEntry(c)
    \/ \E i \in Ids : DeleteEntry(i)
    \/ \E l \in Limits : GetAllEntries(l)
    \/ \E q \in Queries \cup Blanks, l \in SearchLimits : SearchEntries(q, l)
    \/ Tick

SpecQuery == Init /\ [][NextQuery]_vars

(***************************************************************************)
(* Operations whose write statement ran and whose commit() raised: the     *)
(* except branch returns False and leaves the connection open, inside its  *)
(* transaction.  Other connections read the committed table, `rows`.       *)
(***************************************************************************)
\* the table after the UPDATE or INSERT of add_clipboard_entry
AddWritten(content) ==
    LET existing == IdsWithHash(rows, ContentHash(content))
    IN  IF existing # {}
        THEN [rows EXCEPT ![CHOOSE i \in existing : TRUE].timestamp = now]
        ELSE [i \in DOMAIN rows \cup {NextId(rows, seq)} |->
                IF i = NextId(rows, seq)
                THEN MakeRow(NextId(rows, seq), content, now) ELSE rows[i]]

CommitFailure(table) ==
    /\ ~leaked
    /\ leaked' = TRUE
    /\ uncommitted' = <<table>>
    /\ UNCHANGED <<rows, seq, now, issued>>
    /\ UNCHANGED <<export, derived, settingsVars, lockVars, monitorVars>>

\* add_clipboard_entry whose commit went through before close() raised
AddClipboardEntryFailsAfterCommit(content) ==
    /\ ~IsBlank(content)
    /\ ~leaked
    /\ NextId(rows, seq) <= MaxId
    /\ call' = Caught("add", content, 0, 0, FALSE, <<>>)
    /\ rows' = AddWritten(content)
    /\ UNCHANGED <<seq, now, issued, leaked, uncommitted>>
    /\ UNCHANGED <<export, derived, settingsVars, lockVars, monitorVars>>

\* add_clipboard_entry, lines 48-82, raising at line 76
AddClipboardEntryCommitFails(content) ==
    /\ ~IsBlank(content)
    /\ NextId(rows, seq) <= MaxId
    /\ call' = Caught("add", content, 0, 0, FALSE, <<>>)
    /\ CommitFailure(AddWritten(content))

\* update_entry_content, lines 152-188, raising at line 182
UpdateEntryContentCommitFails(entry_id, new_content) ==
    /\ ~IsBlank(new_content)
    /\ entry_id \in DOMAIN rows
    /\ ~UniqueViolation(rows, entry_id, ContentHash(new_content))
    /\ call' = Caught("update", new_content, entry_id, 0, FALSE, <<>>)
    /\ CommitFailure([rows EXCEPT ![entry_id] =
                        MakeRow(entry_id, new_content, rows[entry_id].timestamp)])

\* delete_entry, lines 220-234, raising at line 228
DeleteEntryCommitFails(entry_id) ==
    /\ call' = Caught("delete", <<>>, entry_id, 0, FALSE, <<>>)
    /\ CommitFailure([i \in DOMAIN rows \ {entry_id} |-> rows[i]])

\* clear_all_entries, lines 236-250, raising at line 244
ClearAllEntriesCommitFails ==
    /\ call' = Caught("clear", <<>>, 0, 0, FALSE, <<>>)
    /\ CommitFailure(<<>>)

\* The store with failures before, at and after the write statement of its
\* writing operations, and reads in between.
NextAtomic ==
    \/ \E c \in Contents : AddClipboardEntry(c)
    \/ \E i \in Ids : DeleteEntry(i)
    \/ \E i \in Ids : GetEntryById(i)
    \/ \E c \in Contents : AddClipboardEntryFails(c)
    \/ \E i \in Ids, c \in Contents : UpdateEntryContentFails(i, c)
    \/ \E i \in Ids : DeleteEntryFails(i)
    \/ ClearAllEntriesFails
    \/ \E c \in Contents : AddClipboardEntryCommitFails(c)
    \/ \E i \in Ids, c \in Contents : UpdateEntryContentCommitFails(i, c)
    \/ \E i \in Ids : DeleteEntryCommitFails(i)
    \/ ClearAllEntriesCommitFails
    \/ Tick
    \/ CollectGarbage

SpecAtomic == Init /\ [][NextAtomic]_vars

\* The store with failures of the backing store at any operation.
NextFault ==
    \/ \E c \in Contents : AddClipboardEntry(c)
    \/ \E i \in Ids : DeleteEntry(i)
    \/ ClearAllEntries
    \/ GetTotalEntries
    \/ GetStorageSizeMb
    \/ \E c \in Contents : AddClipboardEntryFails(c)
    \/ GetAllEntriesFails(GetAllDefaultLimit)
    \/ \E q \in {<<98>>, <<>>} : SearchEntriesFails(q, SearchDefaultLimit)
    \/ \E i \in Ids, c \in Contents : UpdateEntryContentFails(i, c)
    \/ \E i \in Ids : GetEntryByIdFails(i)
    \/ \E i \in Ids : DeleteEntryFails(i)
    \/ ClearAllEntriesFails
    \/ GetTotalEntriesFails
    \/ GetStorageSizeMbFails
    \/ CollectGarbage

SpecFault == Init /\ [][NextFault]_vars

(***************************************************************************)
(* ClipboardMonitorThread (clipboard_manager_gui.py, lines 89-128).        *)
(*                                                                         *)
(* pc:  "new"        constructed, start() not called                       *)
(*      "started"    start() called, run() has not executed a statement    *)
(*      "baseline"   run() has set running and is at the baseline paste()  *)
(*      "check"      at the test of `while self.running`                   *)
(*      "poll"       inside the try block, at paste()                      *)
(*      "finished"   run() returned                                        *)
(*      "raised"     an exception left run()                               *)
(*      "terminated" QThread.terminate() killed the thread                 *)
(* stop_pc: "idle", "set" (running = False done), "wait" (in wait(2000)),  *)
(*      "expired" (wait(2000) timed out), "returned".                      *)
(*                                                                         *)
(* Only the monitor thread writes last_content and emits, so one read of   *)
(* the clipboard with what follows it up to the next sleep is one step.    *)
(***************************************************************************)
ClipA == <<97>>
ClipB == <<98>>
ClipValues == {ClipA, ClipB, <<>>, <<32>>}

\* QThread.isRunning()
IsRunning == pc \in {"started", "baseline", "check", "poll"}

\* The user or another program puts a different value on the clipboard.
ClipboardCopy(v) ==
    /\ copies < MaxCopies
    /\ v # clipboard
    /\ clipboard' = v
    /\ copies' = copies + 1
    /\ taken' = IF IsBlank(v) \/ base.read # "ok" THEN taken ELSE taken \cup {v}
    /\ UNCHANGED <<recopy, export, derived, settingsVars, lockVars, storeVars, queue, running, last_content, pc, stop_pc, emitted, base, poll, check>>

\* ClipboardManagerGUI.__init__: self.monitor_thread.start()
MonitorStart ==
    /\ pc = "new"
    /\ pc' = "started"
    /\ UNCHANGED <<recopy, export, derived, settingsVars, lockVars, storeVars, queue, taken, clipboard, running, last_content, stop_pc, emitted, copies,
                   base, poll, check>>

\* run(): self.running = True
RunBegin ==
    /\ pc = "started"
    /\ running' = TRUE
    /\ pc' = "baseline"
    /\ UNCHANGED <<recopy, export, derived, settingsVars, lockVars, storeVars, queue, taken, clipboard, last_content, stop_pc, emitted, copies, base,
                   poll, check>>

\* the baseline read left out: last_content keeps the value of __init__
RunBaselineSkipped(ok) ==
    /\ pc = "baseline"
    /\ pc' = IF ok THEN "check" ELSE "raised"
    /\ base' = [read |-> IF ok THEN "ok" ELSE "error", value |-> clipboard,
                prev |-> last_content, events |-> <<>>, changed |-> FALSE,
                copies |-> copies]
    /\ UNCHANGED <<recopy, export, derived, settingsVars, lockVars, storeVars, queue, taken, clipboard, running, last_content, stop_pc, emitted, copies,
                   poll, check>>

\* run(): self.last_content = pyperclip.paste(), which is not inside the try
\* block: when paste() raises, the exception leaves run()
RunBaseline(ok) ==
    /\ pc = "baseline"
    /\ IF ok
       THEN /\ last_content' = clipboard
            /\ pc' = "check"
            /\ base' = [read |-> "ok", value |-> clipboard,
                        prev |-> last_content, events |-> <<>>,
                        changed |-> FALSE, copies |-> copies]
       ELSE /\ pc' = "raised"
            /\ base' = [read |-> "error", value |-> <<>>,
                        prev |-> last_content, events |-> <<>>,
                        changed |-> FALSE, copies |-> copies]
            /\ UNCHANGED last_content
    /\ UNCHANGED <<recopy, export, derived, settingsVars, lockVars, storeVars, queue, taken, clipboard, running, stop_pc, emitted, copies, poll, check>>

\* run(): while self.running
LoopCheck ==
    /\ pc = "check"
    /\ pc' = IF running THEN "poll" ELSE "finished"
    /\ check' = [seen |-> IF running THEN "true" ELSE "false",
                 stop_set |-> stop_pc # "idle"]
    /\ UNCHANGED <<recopy, export, derived, settingsVars, lockVars, storeVars, queue, taken, clipboard, running, last_content, stop_pc, emitted, copies,
                   base, poll>>

\* the number of clipboard changes the last successful read had seen
SeenCopies == IF poll.read = "none" THEN base.copies ELSE poll.copies

\* what one pass of the loop body records about itself
PollRecord(ok, events) ==
    [read |-> IF ok THEN "ok" ELSE "error",
     value |-> IF ok THEN clipboard ELSE <<>>,
     prev |-> last_content,
     events |-> events,
     changed |-> copies > SeenCopies,
     copies |-> IF ok THEN copies ELSE SeenCopies]

\* the loop body emitting whatever differs from last_content, blank or not
PollEmitsBlank(ok) ==
    /\ pc = "poll"
    /\ pc' = "check"
    /\ LET events == IF ok /\ clipboard # last_content
                     THEN <<clipboard>> ELSE <<>>
       IN  /\ last_content' = IF ok THEN clipboard ELSE last_content
           /\ emitted' = emitted \o events
           /\ queue' = queue \o events
           /\ poll' = PollRecord(ok, events)
    /\ UNCHANGED <<recopy, export, derived, settingsVars, lockVars, storeVars, taken, clipboard, running, stop_pc, copies, base, check>>

\* the loop body setting last_content only to values it emits
PollKeepsLastOnBlank(ok) ==
    /\ pc = "poll"
    /\ pc' = "check"
    /\ LET events == IF ok /\ clipboard # last_content /\ ~IsBlank(clipboard)
                     THEN <<clipboard>> ELSE <<>>
       IN  /\ last_content' = IF events # <<>> THEN clipboard ELSE last_content
           /\ emitted' = emitted \o events
           /\ queue' = queue \o events
           /\ poll' = PollRecord(ok, events)
    /\ UNCHANGED <<recopy, export, derived, settingsVars, lockVars, storeVars, taken, clipboard, running, stop_pc, copies, base, check>>

\* One pass of the loop body, lines 106-118: paste(); when the value differs
\* from last_content it becomes last_content and, unless blank, is emitted;
\* then sleep(check_interval).  When paste() raises, the except branch
\* prints and sleeps one second.
Poll(ok) ==
    /\ pc = "poll"
    /\ pc' = "check"
    /\ LET current_content == clipboard
           differs == ok /\ current_content # last_content
           events == IF differs /\ current_content # <<>>
                        /\ ~IsBlank(current_content)
                     THEN <<current_content>> ELSE <<>>
       IN  /\ last_content' = IF differs THEN current_content ELSE last_content
           /\ emitted' = emitted \o events
           /\ queue' = queue \o events
           /\ poll' = PollRecord(ok, events)
    /\ UNCHANGED <<recopy, export, derived, settingsVars, lockVars, storeVars, taken, clipboard, running, stop_pc, copies, base, check>>

\* cleanup_and_quit: if self.monitor_thread.isRunning(): stop(), whose first
\* statement is self.running = False
StopSetFlag ==
    /\ stop_pc = "idle"
    /\ IsRunning
    /\ running' = FALSE
    /\ stop_pc' = "set"
    /\ UNCHANGED <<recopy, export, derived, settingsVars, lockVars, storeVars, queue, taken, clipboard, last_content, pc, emitted, copies, base, poll,
                   check>>

\* stop(): if self.isRunning(), then self.wait(2000) begins
StopIsRunning ==
    /\ stop_pc = "set"
    /\ stop_pc' = IF IsRunning THEN "wait" ELSE "returned"
    /\ UNCHANGED <<recopy, export, derived, settingsVars, lockVars, storeVars, queue, taken, clipboard, running, last_content, pc, emitted, copies, base,
                   poll, check>>

\* stop(): wait(2000) returns because the thread has ended; the second
\* isRunning() is false
StopWaitReturns ==
    /\ stop_pc = "wait"
    /\ ~IsRunning
    /\ stop_pc' = "returned"
    /\ UNCHANGED <<recopy, export, derived, settingsVars, lockVars, storeVars, queue, taken, clipboard, running, last_content, pc, emitted, copies, base,
                   poll, check>>

\* stop(): wait(2000) times out.  The loop sleeps at most one second between
\* two tests of self.running, so a thread that will find it False ends
\* before the two seconds are over: the wait expires only on a thread whose
\* flag is True.
StopWaitExpires ==
    /\ stop_pc = "wait"
    /\ IsRunning
    /\ running
    /\ stop_pc' = "expired"
    /\ UNCHANGED <<recopy, export, derived, settingsVars, lockVars, storeVars, queue, taken, clipboard, running, last_content, pc, emitted, copies, base,
                   poll, check>>

\* stop() returning after the grace wait without terminate()
StopGivesUp ==
    /\ stop_pc = "expired"
    /\ stop_pc' = "returned"
    /\ UNCHANGED <<recopy, export, derived, settingsVars, lockVars, storeVars, queue, taken, clipboard, running, last_content, pc, emitted, copies, base,
                   poll, check>>

\* stop(): if self.isRunning(): self.terminate(); self.wait(1000)
StopTerminate ==
    /\ stop_pc = "expired"
    /\ pc' = IF IsRunning THEN "terminated" ELSE pc
    /\ stop_pc' = "returned"
    /\ UNCHANGED <<recopy, export, derived, settingsVars, lockVars, storeVars, queue, taken, clipboard, running, last_content, emitted, copies, base,
                   poll, check>>

InitMonitor ==
    /\ rows = <<>>
    /\ seq = 0
    /\ now = 0
    /\ leaked = FALSE
    /\ issued = <<>>
    /\ call = NoCall
    /\ uncommitted = <<>>
    /\ MonitorConstructed /\ recopy = NoRecopy
    /\ export = NoExport
    /\ derived = NoDerived
    /\ SettingsConstructed
    /\ NoInstance
    /\ clipboard \in ClipValues

NextMonitor ==
    \/ \E v \in ClipValues : ClipboardCopy(v)
    \/ MonitorStart
    \/ RunBegin
    \/ \E ok \in BOOLEAN : RunBaseline(ok)
    \/ LoopCheck
    \/ \E ok \in BOOLEAN : Poll(ok)
    \/ StopSetFlag
    \/ StopIsRunning
    \/ StopWaitReturns
    \/ StopWaitExpires
    \/ StopTerminate

SpecMonitor == InitMonitor /\ [][NextMonitor]_vars

\* the steps of stop() after its first statement
StopStep ==
    \/ StopIsRunning
    \/ StopWaitReturns
    \/ StopWaitExpires
    \/ StopTerminate

\* The operating system schedules the monitor thread, and the GUI thread
\* runs a stop() it has begun to its end: both waits of stop() are bounded.
SpecStop ==
    /\ InitMonitor
    /\ [][NextMonitor]_vars
    /\ WF_vars(RunBegin \/ (\E ok \in BOOLEAN : RunBaseline(ok)) \/ LoopCheck
                  \/ (\E ok \in BOOLEAN : Poll(ok)))
    /\ WF_vars(StopStep)

(***************************************************************************)
(* The application while it runs: the monitor thread emits                 *)
(* clipboard_changed, Qt queues each signal to the GUI thread, and the GUI *)
(* thread runs on_clipboard_changed for them one by one, in order.         *)
(***************************************************************************)
\* on_clipboard_changed with the call of add_clipboard_entry left out
OnClipboardChangedDropsEntry ==
    /\ queue # <<>>
    /\ queue' = Tail(queue)
    /\ UNCHANGED <<recopy, export, derived, settingsVars, lockVars, storeVars, clipboard, running, last_content, pc, stop_pc,
                   emitted, copies, base, poll, check, taken>>

\* ClipboardManagerGUI.on_clipboard_changed(content): a non-blank content is
\* added to the storage (the list and the tray message are then refreshed)
OnClipboardChanged ==
    /\ queue # <<>>
    /\ queue' = Tail(queue)
    /\ LET content == Head(queue)
       IN  IF content # <<>> /\ ~IsBlank(content)
           THEN AddClipboardEntryInStore(content)
           ELSE UNCHANGED storeVars
    /\ recopy' = IF recopy.id # 0 /\ Head(queue) = recopy.content
                 THEN [recopy EXCEPT !.forwarded = TRUE] ELSE recopy
    /\ UNCHANGED <<export, derived, settingsVars, lockVars, clipboard, running, last_content, pc, stop_pc, emitted,
                   copies, base, poll, check, taken>>

\* on_history_item_double_clicked, copy_selected_entry and the context menu:
\* pyperclip.copy(entry['content']) of an entry of the history
RecopyEntry(entry_id) ==
    /\ entry_id \in DOMAIN rows
    /\ copies < MaxCopies
    /\ clipboard' = rows[entry_id].content
    /\ copies' = copies + 1
    /\ taken' = IF base.read # "ok" THEN taken
                ELSE taken \cup {rows[entry_id].content}
    /\ recopy' = [id |-> entry_id, content |-> rows[entry_id].content,
                  forwarded |-> FALSE]
    /\ UNCHANGED <<export, derived, settingsVars, lockVars, storeVars, queue, running, last_content, pc, stop_pc, emitted, base, poll, check>>

\* a step of the monitor thread
MonitorThreadStep ==
    \/ RunBegin
    \/ \E ok \in BOOLEAN : RunBaseline(ok)
    \/ LoopCheck
    \/ \E ok \in BOOLEAN : Poll(ok)

NextApp ==
    \/ \E v \in ClipValues : ClipboardCopy(v)
    \/ MonitorStart
    \/ RunBegin
    \/ \E ok \in BOOLEAN : RunBaseline(ok)
    \/ LoopCheck
    \/ \E ok \in BOOLEAN : Poll(ok)
    \/ OnClipboardChanged
    \/ Tick

\* The operating system schedules the monitor thread, and the Qt event loop
\* of the GUI thread delivers every queued signal.
SpecApp ==
    /\ InitMonitor
    /\ [][NextApp]_vars
    /\ WF_vars(MonitorThreadStep)
    /\ WF_vars(OnClipboardChanged)

\* The running application with the window's use of the history: entries
\* are copied back to the clipboard and edited.
NextRecopy ==
    \/ \E v \in ClipValues : ClipboardCopy(v)
    \/ MonitorStart
    \/ RunBegin
    \/ \E ok \in BOOLEAN : RunBaseline(ok)
    \/ LoopCheck
    \/ \E ok \in BOOLEAN : Poll(ok)
    \/ OnClipboardChanged
    \/ \E i \in Ids : RecopyEntry(i)
    \/ \E i \in Ids, c \in {ClipA, ClipB} : UpdateEntryContent(i, c)
    \/ CollectGarbage
    \/ Tick

SpecRecopy == InitMonitor /\ [][NextRecopy]_vars

(***************************************************************************)
(* SingleInstanceLock and main() (clipboard_manager_gui.py, lines 27-80    *)
(* and 704-742), one step per system call on the lock file.                *)
(*                                                                         *)
(* ppc[p]: "new" not launched; inside acquire(): "exists", "read", "kill", *)
(* "remove_stale", "remove_invalid", "open", "close"; then "startup"       *)
(* (lines 715-734), "running" (app.exec()); inside release():              *)
(* "release_check", "release_remove"; at last "exited", or "killed" for a  *)
(* process that was killed or crashed outside Python.                      *)
(***************************************************************************)
AcquireSteps == {"read", "kill", "remove_stale", "remove_invalid", "open", "close"}

\* os.kill(pid, 0) succeeds: a process with that id exists
ProcessExists(pid) == pid \in Procs /\ ppc[pid] \notin {"new", "exited", "killed"}

\* _is_process_running answering False whatever the process id
IsProcessRunningNever(pid) == FALSE

\* SingleInstanceLock._is_process_running
IsProcessRunning(pid) == ProcessExists(pid)

\* process p changes the lock file: the calls of acquire() other processes
\* are in the middle of no longer run alone
Disturbing(p, a) ==
    [q \in Procs |-> IF q # p /\ ppc[q] \in AcquireSteps
                     THEN [a[q] EXCEPT !.disturbed = TRUE] ELSE a[q]]

LockFrame == UNCHANGED <<storeVars, monitorVars, settingsVars, export, derived, app>>

\* main(): lock = SingleInstanceLock(...); lock.acquire() is entered
Launch(p) ==
    /\ ppc[p] = "new"
    /\ ppc' = [ppc EXCEPT ![p] = "exists"]
    /\ UNCHANGED <<lockfile, fd, lock_acquired, acq, rel>>
    /\ LockFrame

\* acquire(): if os.path.exists(self.lock_file)
AcquireExists(p) ==
    /\ ppc[p] = "exists"
    /\ ppc' = [ppc EXCEPT ![p] = IF lockfile.exists THEN "read" ELSE "open"]
    /\ UNCHANGED <<lockfile, fd, lock_acquired, acq, rel>>
    /\ LockFrame

\* acquire(): pid = int(f.read().strip()); a file that is gone raises
\* IOError and a content that is no number ValueError, both handled at
\* line 50
AcquireRead(p) ==
    /\ ppc[p] = "read"
    /\ acq' = [acq EXCEPT ![p].read = lockfile]
    /\ ppc' = [ppc EXCEPT ![p] = IF lockfile.exists /\ lockfile.kind = "pid"
                                 THEN "kill" ELSE "remove_invalid"]
    /\ UNCHANGED <<lockfile, fd, lock_acquired, rel>>
    /\ LockFrame

\* acquire() that removes the lock file of the running process it found
AcquireLivenessRemoves(p) ==
    /\ ppc[p] = "kill"
    /\ IF IsProcessRunning(acq[p].read.pid)
       THEN /\ lockfile' = Absent
            /\ acq' = [acq EXCEPT ![p].running = ProcessExists(acq[p].read.pid),
                                  ![p].result = "false", ![p].left = Absent]
            /\ ppc' = [ppc EXCEPT ![p] = "exited"]
       ELSE /\ acq' = [acq EXCEPT ![p].running = ProcessExists(acq[p].read.pid)]
            /\ ppc' = [ppc EXCEPT ![p] = "remove_stale"]
            /\ UNCHANGED lockfile
    /\ UNCHANGED <<fd, lock_acquired, rel>>
    /\ LockFrame

\* acquire(): if self._is_process_running(pid): return False
AcquireLiveness(p) ==
    /\ ppc[p] = "kill"
    /\ IF IsProcessRunning(acq[p].read.pid)
       THEN /\ acq' = [acq EXCEPT ![p].running = ProcessExists(acq[p].read.pid),
                                  ![p].result = "false", ![p].left = lockfile]
            /\ ppc' = [ppc EXCEPT ![p] = "exited"]
       ELSE /\ acq' = [acq EXCEPT ![p].running = ProcessExists(acq[p].read.pid)]
            /\ ppc' = [ppc EXCEPT ![p] = "remove_stale"]
    /\ UNCHANGED <<lockfile, fd, lock_acquired, rel>>
    /\ LockFrame

\* acquire(): os.remove(self.lock_file) at line 49; when the file is gone
\* FileNotFoundError is an IOError, handled at line 50
AcquireRemoveStale(p) ==
    /\ ppc[p] = "remove_stale"
    /\ IF lockfile.exists
       THEN /\ lockfile' = Absent
            /\ acq' = [Disturbing(p, acq) EXCEPT ![p].removed = TRUE]
            /\ ppc' = [ppc EXCEPT ![p] = "open"]
       ELSE /\ ppc' = [ppc EXCEPT ![p] = "remove_invalid"]
            /\ UNCHANGED <<lockfile, acq>>
    /\ UNCHANGED <<fd, lock_acquired, rel>>
    /\ LockFrame

\* acquire(): os.remove(self.lock_file) at line 52; when the file is gone
\* the exception reaches line 61 and acquire() returns False
AcquireRemoveInvalid(p) ==
    /\ ppc[p] = "remove_invalid"
    /\ IF lockfile.exists
       THEN /\ lockfile' = Absent
            /\ acq' = [Disturbing(p, acq) EXCEPT ![p].removed = TRUE]
            /\ ppc' = [ppc EXCEPT ![p] = "open"]
       ELSE /\ acq' = [acq EXCEPT ![p].result = "false", ![p].left = lockfile]
            /\ ppc' = [ppc EXCEPT ![p] = "exited"]
            /\ UNCHANGED lockfile
    /\ UNCHANGED <<fd, lock_acquired, rel>>
    /\ LockFrame

\* acquire(): open(self.lock_file, 'w') creates the file, or empties the one
\* that is there
AcquireOpen(p) ==
    /\ ppc[p] = "open"
    /\ LET ino == IF lockfile.exists THEN lockfile.ino ELSE p
       IN  /\ lockfile' = LockFileOf("empty", 0, ino)
           /\ fd' = [fd EXCEPT ![p] = ino]
    /\ acq' = Disturbing(p, acq)
    /\ ppc' = [ppc EXCEPT ![p] = "close"]
    /\ UNCHANGED <<lock_acquired, rel>>
    /\ LockFrame

\* acquire(): f.write(str(os.getpid())) reaches the inode when the file is
\* closed (a file removed meanwhile stays removed); then
\* self.lock_acquired = True; return True
AcquireWriteClose(p) ==
    /\ ppc[p] = "close"
    /\ LET written == IF lockfile.exists /\ lockfile.ino = fd[p]
                      THEN LockFileOf("pid", p, fd[p]) ELSE lockfile
       IN  /\ lockfile' = written
           /\ acq' = [Disturbing(p, acq) EXCEPT ![p].result = "true",
                                               ![p].left = written]
    /\ lock_acquired' = [lock_acquired EXCEPT ![p] = TRUE]
    /\ ppc' = [ppc EXCEPT ![p] = "startup"]
    /\ UNCHANGED <<fd, rel>>
    /\ LockFrame

\* main(): lines 715-734 complete and app.exec() runs the event loop
StartupCompletes(p) ==
    /\ ppc[p] = "startup"
    /\ ppc' = [ppc EXCEPT ![p] = "running"]
    /\ UNCHANGED <<lockfile, fd, lock_acquired, acq, rel>>
    /\ LockFrame

\* main(): lines 715-734 raise an Exception: line 741 calls lock.release()
StartupRaises(p) ==
    /\ ppc[p] = "startup"
    /\ ppc' = [ppc EXCEPT ![p] = "release_check"]
    /\ rel' = [rel EXCEPT ![p].called = TRUE, ![p].path = "exception"]
    /\ UNCHANGED <<lockfile, fd, lock_acquired, acq>>
    /\ LockFrame

\* main(): lines 715-734 raise KeyboardInterrupt or SystemExit, which
\* `except Exception` does not catch: the process ends
StartupInterrupted(p) ==
    /\ ppc[p] = "startup"
    /\ ppc' = [ppc EXCEPT ![p] = "exited"]
    /\ rel' = [rel EXCEPT ![p].path = "interrupt"]
    /\ UNCHANGED <<lockfile, fd, lock_acquired, acq>>
    /\ LockFrame

\* the event loop ends: aboutToQuit runs cleanup(), whose finally clause
\* calls lock.release()
Quit(p) ==
    /\ ppc[p] = "running"
    /\ ppc' = [ppc EXCEPT ![p] = "release_check"]
    /\ rel' = [rel EXCEPT ![p].called = TRUE, ![p].path = "quit"]
    /\ UNCHANGED <<lockfile, fd, lock_acquired, acq>>
    /\ LockFrame

\* the process is killed, or crashes outside Python
Killed(p) ==
    /\ ppc[p] \in {"startup", "running"}
    /\ ppc' = [ppc EXCEPT ![p] = "killed"]
    /\ UNCHANGED <<lockfile, fd, lock_acquired, acq, rel>>
    /\ LockFrame

\* release() that forgets the file
ReleaseCheckKeepsFile(p) ==
    /\ ppc[p] = "release_check"
    /\ rel' = [rel EXCEPT ![p].returned = TRUE, ![p].left = lockfile]
    /\ lock_acquired' = [lock_acquired EXCEPT ![p] = FALSE]
    /\ ppc' = [ppc EXCEPT ![p] = "exited"]
    /\ UNCHANGED <<lockfile, fd, acq>>
    /\ LockFrame

\* release(): if self.lock_acquired and os.path.exists(self.lock_file);
\* when not, release() returns and the process ends
ReleaseCheck(p) ==
    /\ ppc[p] = "release_check"
    /\ IF lock_acquired[p] /\ lockfile.exists
       THEN /\ ppc' = [ppc EXCEPT ![p] = "release_remove"]
            /\ UNCHANGED rel
       ELSE /\ ppc' = [ppc EXCEPT ![p] = "exited"]
            /\ rel' = [rel EXCEPT ![p].returned = TRUE, ![p].left = lockfile]
    /\ UNCHANGED <<lockfile, fd, lock_acquired, acq>>
    /\ LockFrame

\* release(): os.remove(self.lock_file); self.lock_acquired = False; an
\* exception of os.remove is printed; the process ends
ReleaseRemove(p) ==
    /\ ppc[p] = "release_remove"
    /\ IF lockfile.exists
       THEN /\ lockfile' = Absent
            /\ lock_acquired' = [lock_acquired EXCEPT ![p] = FALSE]
            /\ acq' = Disturbing(p, acq)
       ELSE UNCHANGED <<lockfile, lock_acquired, acq>>
    /\ rel' = [rel EXCEPT ![p].returned = TRUE, ![p].left = Absent]
    /\ ppc' = [ppc EXCEPT ![p] = "exited"]
    /\ UNCHANGED fd
    /\ LockFrame

\* what an earlier run can have left in the temporary directory
LeftBehind == {Absent, LockFileOf("garbage", 0, 0), LockFileOf("pid", DeadPid, 0)}

InitLock ==
    /\ rows = <<>>
    /\ seq = 0
    /\ now = 0
    /\ leaked = FALSE
    /\ issued = <<>>
    /\ call = NoCall
    /\ uncommitted = <<>>
    /\ MonitorConstructed /\ recopy = NoRecopy
    /\ export = NoExport
    /\ derived = NoDerived
    /\ SettingsConstructed
    /\ clipboard = <<>>
    /\ ppc = [p \in Procs |-> "new"]
    /\ app = NoApp
    /\ fd = [p \in Procs |-> 0]
    /\ lock_acquired = [p \in Procs |-> FALSE]
    /\ acq = [p \in Procs |-> NoAcquire]
    /\ rel = [p \in Procs |-> NoRelease]
    /\ lockfile \in LeftBehind

NextLock ==
    \/ \E p \in Procs : Launch(p)
    \/ \E p \in Procs : AcquireExists(p)
    \/ \E p \in Procs : AcquireRead(p)
    \/ \E p \in Procs : AcquireLiveness(p)
    \/ \E p \in Procs : AcquireRemoveStale(p)
    \/ \E p \in Procs : AcquireRemoveInvalid(p)
    \/ \E p \in Procs : AcquireOpen(p)
    \/ \E p \in Procs : AcquireWriteClose(p)
    \/ \E p \in Procs : StartupCompletes(p)
    \/ \E p \in Procs : StartupRaises(p)
    \/ \E p \in Procs : StartupInterrupted(p)
    \/ \E p \in Procs : Quit(p)
    \/ \E p \in Procs : Killed(p)
    \/ \E p \in Procs : ReleaseCheck(p)
    \/ \E p \in Procs : ReleaseRemove(p)

SpecLock == InitLock /\ [][NextLock]_vars

(***************************************************************************)
(* One application process from main() to its exit                         *)
(* (clipboard_manager_gui.py, lines 134-189, 676-693 and 704-742).         *)
(*                                                                         *)
(* After acquire() returned true, ppc[App] is "startup" (before            *)
(* ClipboardStorage() in __init__), "constructed" (the storage exists),    *)
(* "running" (app.exec()), "cleanup" (cleanup_and_quit called by the tray  *)
(* Quit action or the SIGINT handler), "quitting" (QCoreApplication.quit() *)
(* was called and the event loop ends), "about_to_quit" (cleanup_and_quit  *)
(* called by the aboutToQuit handler), then release() as above.            *)
(***************************************************************************)
App == 1

AppFrame == UNCHANGED <<settingsVars, export, derived>>

\* ClipboardStorage() that catches the failure of init_database, as the
\* other methods of the store do
AppConstructStorageCatches(ok) ==
    /\ ppc[App] = "startup"
    /\ call' = IF ok THEN Called("init_database", <<>>, 0, 0, TRUE, <<>>)
               ELSE Caught("init_database", <<>>, 0, 0, FALSE, <<>>)
    /\ app' = [app EXCEPT !.storage = IF ok THEN "ok" ELSE "failed"]
    /\ ppc' = [ppc EXCEPT ![App] = "constructed"]
    /\ UNCHANGED <<rel, rows, seq, now, leaked, issued, uncommitted>>
    /\ UNCHANGED <<lockfile, fd, lock_acquired, acq, monitorVars>>
    /\ AppFrame

\* ClipboardStorage.__init__ / init_database, called at line 137 with no
\* try block in between up to main(): an exception reaches line 739, where
\* main() calls lock.release() and exits
AppConstructStorage(ok) ==
    /\ ppc[App] = "startup"
    /\ IF ok
       THEN /\ call' = Called("init_database", <<>>, 0, 0, TRUE, <<>>)
            /\ app' = [app EXCEPT !.storage = "ok"]
            /\ ppc' = [ppc EXCEPT ![App] = "constructed"]
            /\ UNCHANGED rel
       ELSE /\ call' = Raised("init_database", <<>>, 0, 0)
            /\ app' = [app EXCEPT !.storage = "failed"]
            /\ ppc' = [ppc EXCEPT ![App] = "release_check"]
            /\ rel' = [rel EXCEPT ![App].called = TRUE,
                                  ![App].path = "exception"]
    /\ UNCHANGED <<rows, seq, now, leaked, issued, uncommitted>>
    /\ UNCHANGED <<lockfile, fd, lock_acquired, acq, monitorVars>>
    /\ AppFrame

\* __init__: load_clipboard_history(), the first operation on the store
AppLoadHistory ==
    /\ ppc[App] = "constructed"
    /\ call.op = "init_database"
    /\ GetAllEntries(GetAllDefaultLimit)

\* __init__: self.monitor_thread.start() and the lines after it; main():
\* window.show(), aboutToQuit.connect(cleanup), app.exec()
AppStart ==
    /\ ppc[App] = "constructed"
    /\ call.op = "get_all"
    /\ pc = "new"
    /\ pc' = "started"
    /\ ppc' = [ppc EXCEPT ![App] = "running"]
    /\ app' = [app EXCEPT !.window = "shown"]
    /\ UNCHANGED <<lockfile, fd, lock_acquired, acq, rel, storeVars>>
    /\ UNCHANGED <<clipboard, running, last_content, stop_pc, emitted, copies,
                   base, poll, check, queue, taken, recopy>>
    /\ AppFrame

\* the event loop delivers a queued clipboard_changed signal
AppOnClipboardChanged ==
    /\ ppc[App] = "running"
    /\ OnClipboardChanged

\* closeEvent: self.hide(); event.ignore()
CloseEvent ==
    /\ ppc[App] = "running"
    /\ app.window = "shown"
    /\ app' = [app EXCEPT !.window = "hidden"]
    /\ UNCHANGED <<lockfile, ppc, fd, lock_acquired, acq, rel>>
    /\ UNCHANGED <<storeVars, monitorVars>>
    /\ AppFrame

\* toggle_window on a hidden window: self.show()
ToggleWindow ==
    /\ ppc[App] = "running"
    /\ app.window = "hidden"
    /\ app' = [app EXCEPT !.window = "shown"]
    /\ UNCHANGED <<lockfile, ppc, fd, lock_acquired, acq, rel>>
    /\ UNCHANGED <<storeVars, monitorVars>>
    /\ AppFrame

\* quit_application (the tray's Quit action) or signal_handler (SIGINT):
\* cleanup_and_quit() is entered
QuitApplication ==
    /\ ppc[App] = "running"
    /\ ppc' = [ppc EXCEPT ![App] = "cleanup"]
    /\ UNCHANGED <<lockfile, fd, lock_acquired, acq, rel, app>>
    /\ UNCHANGED <<storeVars, monitorVars>>
    /\ AppFrame

InCleanup == ppc[App] \in {"cleanup", "about_to_quit"}

\* cleanup_and_quit: if self.monitor_thread.isRunning():
\* self.monitor_thread.stop()
CleanupStopsMonitor ==
    /\ InCleanup
    /\ StopSetFlag

\* cleanup_and_quit that leaves the monitor thread alone
CleanupAndQuitLeavesMonitor ==
    /\ InCleanup
    /\ stop_pc \in {"idle", "returned"}
    /\ app' = [app EXCEPT !.cleanups = app.cleanups + 1]
    /\ IF ppc[App] = "cleanup"
       THEN /\ ppc' = [ppc EXCEPT ![App] = "quitting"]
            /\ UNCHANGED rel
       ELSE /\ ppc' = [ppc EXCEPT ![App] = "release_check"]
            /\ rel' = [rel EXCEPT ![App].called = TRUE, ![App].path = "quit"]
    /\ UNCHANGED <<lockfile, fd, lock_acquired, acq>>
    /\ UNCHANGED <<storeVars, monitorVars>>
    /\ AppFrame

\* cleanup_and_quit after the monitor: self.storage.close() (which does
\* nothing) and QCoreApplication.quit().  Called by quit_application or the
\* signal handler it returns to the event loop, which ends; called by
\* cleanup() of main() it is followed by lock.release() in the finally
\* clause.
CleanupAndQuit ==
    /\ InCleanup
    /\ stop_pc = "returned" \/ (stop_pc = "idle" /\ ~IsRunning)
    /\ app' = [app EXCEPT !.cleanups = app.cleanups + 1]
    /\ IF ppc[App] = "cleanup"
       THEN /\ ppc' = [ppc EXCEPT ![App] = "quitting"]
            /\ UNCHANGED rel
       ELSE /\ ppc' = [ppc EXCEPT ![App] = "release_check"]
            /\ rel' = [rel EXCEPT ![App].called = TRUE, ![App].path = "quit"]
    /\ UNCHANGED <<lockfile, fd, lock_acquired, acq>>
    /\ UNCHANGED <<storeVars, monitorVars>>
    /\ AppFrame

\* app.exec() returns: aboutToQuit runs cleanup() of main(), which calls
\* window.cleanup_and_quit()
AboutToQuit ==
    /\ ppc[App] = "quitting"
    /\ ppc' = [ppc EXCEPT ![App] = "about_to_quit"]
    /\ UNCHANGED <<lockfile, fd, lock_acquired, acq, rel, app>>
    /\ UNCHANGED <<storeVars, monitorVars>>
    /\ AppFrame

NextQuit ==
    \/ Launch(App)
    \/ AcquireExists(App)
    \/ AcquireRead(App)
    \/ AcquireLiveness(App)
    \/ AcquireRemoveStale(App)
    \/ AcquireRemoveInvalid(App)
    \/ AcquireOpen(App)
    \/ AcquireWriteClose(App)
    \/ \E ok \in BOOLEAN : AppConstructStorage(ok)
    \/ AppLoadHistory
    \/ AppStart
    \/ \E v \in ClipValues : ClipboardCopy(v)
    \/ RunBegin
    \/ \E ok \in BOOLEAN : RunBaseline(ok)
    \/ LoopCheck
    \/ \E ok \in BOOLEAN : Poll(ok)
    \/ AppOnClipboardChanged
    \/ CloseEvent
    \/ ToggleWindow
    \/ QuitApplication
    \/ CleanupStopsMonitor
    \/ StopIsRunning
    \/ StopWaitReturns
    \/ StopWaitExpires
    \/ StopTerminate
    \/ CleanupAndQuit
    \/ AboutToQuit
    \/ ReleaseCheck(App)
    \/ ReleaseRemove(App)

SpecQuit == InitLock /\ [][NextQuit]_vars

(***************************************************************************)
(* The settings operations.  Every operation that changes the dict ends    *)
(* with save_settings(), which returns whether the file was written.       *)
(***************************************************************************)
\* list.remove(x): without the first item equal to x
ListRemove(list, x) ==
    LET at == { i \in 1..Len(list) : list[i] = x }
    IN  IF at = {} THEN list
        ELSE LET i == CHOOSE k \in at : \A j \in at : k <= j
             IN  SubSeq(list, 1, i - 1) \o SubSeq(list, i + 1, Len(list))

\* `x in list`
ListHas(list, x) == \E i \in 1..Len(list) : list[i] = x

RecentSearches == ListOf(settings, default_settings, "recent_searches")
FavoriteEntries == ListOf(settings, default_settings, "favorite_entries")

\* the keys and values that set_setting is called with
SettableKeys == {"theme", "custom", "recent_searches", "favorite_entries"}
SettableValues(key) ==
    CASE key = "theme" -> {DefaultSettings.theme, "dark"}
      [] key = "custom" -> {"x"}
      [] key = "recent_searches" -> { OwnList(l) : l \in RecentLists }
      [] key = "favorite_entries" -> { OwnList(l) : l \in FavoriteLists }

\* the dicts that update_multiple_settings is called with
Updates ==
    {[theme |-> "dark", recent_searches |-> OwnList(Run(RecentSearchesCap + 1))]}

\* dict.update(updates)
DictUpdate(dict, updates) ==
    [k \in DOMAIN dict \cup DOMAIN updates |->
        IF k \in DOMAIN updates THEN updates[k] ELSE dict[k]]

\* save_settings(): json.dump to the file, or the exception caught
SaveSettings(ok) == config_file' = IF ok THEN "current" ELSE "stale"

SettingsCalled(op, arg, result) ==
    [op |-> op, arg |-> arg, result |-> result, before |-> RecentSearches]

SettingsFrame == UNCHANGED <<storeVars, monitorVars, lockVars, export, derived>>

\* set_setting(key, value)
SetSetting(key, value) ==
    \E ok \in BOOLEAN :
        /\ settings' = DictUpdate(settings, [k \in {key} |-> value])
        /\ SaveSettings(ok)
        /\ scall' = SettingsCalled("set_setting", <<>>, ok)
        /\ UNCHANGED default_settings
        /\ SettingsFrame

\* update_multiple_settings(updates)
UpdateMultipleSettings(updates) ==
    \E ok \in BOOLEAN :
        /\ settings' = DictUpdate(settings, updates)
        /\ SaveSettings(ok)
        /\ scall' = SettingsCalled("update_multiple_settings", <<>>, ok)
        /\ UNCHANGED default_settings
        /\ SettingsFrame

\* reset_to_defaults()
ResetToDefaults ==
    \E ok \in BOOLEAN :
        /\ settings' = DefaultSettingsCopy
        /\ SaveSettings(ok)
        /\ scall' = SettingsCalled("reset_to_defaults", <<>>, ok)
        /\ UNCHANGED default_settings
        /\ SettingsFrame

\* add_recent_search without the remove() of the term already listed
AddRecentSearchKeepsOld(search_term) ==
    LET inserted == <<search_term>> \o RecentSearches
        kept == SubSeq(inserted, 1, Minimum(Len(inserted), RecentSearchesCap))
    IN
    IF IsBlank(search_term)
    THEN /\ scall' = SettingsCalled("add_recent_search", search_term, FALSE)
         /\ UNCHANGED <<settings, default_settings, config_file>>
         /\ SettingsFrame
    ELSE \E ok \in BOOLEAN :
            /\ default_settings' =
                  IF settings["recent_searches"].shared
                  THEN [default_settings EXCEPT !["recent_searches"] = inserted]
                  ELSE default_settings
            /\ settings' =
                  [settings EXCEPT !["recent_searches"] = OwnList(kept)]
            /\ SaveSettings(ok)
            /\ scall' = SettingsCalled("add_recent_search", search_term, ok)
            /\ SettingsFrame

\* add_recent_search without the [:20]
AddRecentSearchUncut(search_term) ==
    LET inserted == <<search_term>> \o ListRemove(RecentSearches, search_term)
    IN
    IF IsBlank(search_term)
    THEN /\ scall' = SettingsCalled("add_recent_search", search_term, FALSE)
         /\ UNCHANGED <<settings, default_settings, config_file>>
         /\ SettingsFrame
    ELSE \E ok \in BOOLEAN :
            /\ default_settings' =
                  IF settings["recent_searches"].shared
                  THEN [default_settings EXCEPT !["recent_searches"] = inserted]
                  ELSE default_settings
            /\ settings' =
                  [settings EXCEPT !["recent_searches"] = OwnList(inserted)]
            /\ SaveSettings(ok)
            /\ scall' = SettingsCalled("add_recent_search", search_term, ok)
            /\ SettingsFrame

\* add_recent_search(search_term): remove() and insert() change the list
\* object in place, the slice is a new list
AddRecentSearch(search_term) ==
    LET inserted == <<search_term>> \o ListRemove(RecentSearches, search_term)
        kept == SubSeq(inserted, 1, Minimum(Len(inserted), RecentSearchesCap))
    IN
    IF IsBlank(search_term)
    THEN /\ scall' = SettingsCalled("add_recent_search", search_term, FALSE)
         /\ UNCHANGED <<settings, default_settings, config_file>>
         /\ SettingsFrame
    ELSE \E ok \in BOOLEAN :
            /\ default_settings' =
                  IF settings["recent_searches"].shared
                  THEN [default_settings EXCEPT !["recent_searches"] = inserted]
                  ELSE default_settings
            /\ settings' =
                  [settings EXCEPT !["recent_searches"] = OwnList(kept)]
            /\ SaveSettings(ok)
            /\ scall' = SettingsCalled("add_recent_search", search_term, ok)
            /\ SettingsFrame

\* the list object of favorite_entries changed in place to `items`
FavoritesInPlace(items) ==
    IF settings["favorite_entries"].shared
    THEN /\ default_settings' =
               [default_settings EXCEPT !["favorite_entries"] = items]
         /\ UNCHANGED settings
    ELSE /\ settings' =
               [settings EXCEPT !["favorite_entries"] = OwnList(items)]
         /\ UNCHANGED default_settings

\* add_favorite_entry(entry_id)
AddFavoriteEntry(entry_id) ==
    IF ~ListHas(FavoriteEntries, entry_id)
    THEN \E ok \in BOOLEAN :
            /\ FavoritesInPlace(Append(FavoriteEntries, entry_id))
            /\ SaveSettings(ok)
            /\ scall' = SettingsCalled("add_favorite_entry", <<entry_id>>, ok)
            /\ SettingsFrame
    ELSE /\ scall' = SettingsCalled("add_favorite_entry", <<entry_id>>, TRUE)
         /\ UNCHANGED <<settings, default_settings, config_file>>
         /\ SettingsFrame

\* remove_favorite_entry(entry_id)
RemoveFavoriteEntry(entry_id) ==
    IF ListHas(FavoriteEntries, entry_id)
    THEN \E ok \in BOOLEAN :
            /\ FavoritesInPlace(ListRemove(FavoriteEntries, entry_id))
            /\ SaveSettings(ok)
            /\ scall' = SettingsCalled("remove_favorite_entry", <<entry_id>>, ok)
            /\ SettingsFrame
    ELSE /\ scall' = SettingsCalled("remove_favorite_entry", <<entry_id>>, TRUE)
         /\ UNCHANGED <<settings, default_settings, config_file>>
         /\ SettingsFrame

\* SettingsManager(): load_settings() of a first run, or of a file that an
\* earlier run wrote (the keys of the file replace the shared defaults)
InitSettings ==
    /\ rows = <<>>
    /\ seq = 0
    /\ now = 0
    /\ leaked = FALSE
    /\ issued = <<>>
    /\ call = NoCall
    /\ uncommitted = <<>>
    /\ MonitorConstructed /\ recopy = NoRecopy
    /\ export = NoExport
    /\ derived = NoDerived
    /\ NoInstance
    /\ clipboard = <<>>
    /\ default_settings = [k \in ListKeys |-> <<>>]
    /\ config_file = "current"
    /\ scall = NoSettingsCall
    /\ \E recent \in {SharedList} \cup { OwnList(l) : l \in RecentLists } :
         settings =
            [DefaultSettingsCopy EXCEPT !["recent_searches"] = recent]

NextSettings ==
    \/ \E key \in SettableKeys : \E value \in SettableValues(key) :
          SetSetting(key, value)
    \/ \E updates \in Updates : UpdateMultipleSettings(updates)
    \/ ResetToDefaults
    \/ \E t \in SearchTerms : AddRecentSearch(t)
    \/ \E id \in FavoriteIds : AddFavoriteEntry(id)
    \/ \E id \in FavoriteIds : RemoveFavoriteEntry(id)

SpecSettings == InitSettings /\ [][NextSettings]_vars

(***************************************************************************)
(* ClipboardManagerGUI.export_clipboard_data: the entries that             *)
(* get_all_entries() returns, with its default limit, are written to the   *)
(* file the user chose.                                                    *)
(***************************************************************************)
\* the record appended to export_data for one entry
ExportRecord(entry) ==
    [content |-> entry.content,
     timestamp |-> entry.timestamp,
     content_type |-> entry.content_type,
     size_bytes |-> entry.size_bytes]

ExportData(entries) == [k \in DOMAIN entries |-> ExportRecord(entries[k])]

Exported(state, document) ==
    [state |-> state, document |-> document, pre |-> rows]

\* the file dialog was dismissed: `if filename` is false
ExportCancelled ==
    /\ export' = Exported("cancelled", <<>>)
    /\ UNCHANGED <<storeVars, monitorVars, lockVars, settingsVars, derived>>

\* a file was chosen and get_all_entries() answered from the table; writing
\* the file either goes through or raises into the except branch
ExportClipboardData ==
    \E entries \in GetAllResults(rows, GetAllDefaultLimit), ok \in BOOLEAN :
        /\ call' = Called("get_all", <<>>, 0, GetAllDefaultLimit, TRUE, entries)
        /\ export' = IF ok THEN Exported("written", ExportData(entries))
                     ELSE Exported("error", <<>>)
        /\ UNCHANGED <<rows, seq, now, leaked, issued, uncommitted>>
        /\ UNCHANGED <<monitorVars, lockVars, settingsVars, derived>>

\* a file was chosen and get_all_entries() returned [] from its except
\* branch: an empty document is written and success reported
ExportClipboardDataReadFails ==
    /\ call' = Caught("get_all", <<>>, 0, GetAllDefaultLimit, TRUE, <<>>)
    /\ export' = Exported("written", ExportData(<<>>))
    /\ leaked' \in {leaked, TRUE}
    /\ UNCHANGED <<rows, seq, now, issued, uncommitted>>
    /\ UNCHANGED <<monitorVars, lockVars, settingsVars, derived>>

\* The store as the history view fills it, with exports in between.
NextExport ==
    \/ \E c \in Contents : AddClipboardEntry(c)
    \/ \E i \in Ids : DeleteEntry(i)
    \/ Tick
    \/ ExportCancelled
    \/ ExportClipboardData
    \/ ExportClipboardDataReadFails

SpecExport == Init /\ [][NextExport]_vars

(***************************************************************************)
(* The store's two pure helpers, evaluated on their own.                   *)
(***************************************************************************)
HttpUpper == <<72, 84, 84, 80, 58, 47, 47>>

\* contents for _detect_content_type: each prefix with and without further
\* lines, near-prefixes, and texts with the line boundaries of splitlines()
\* inside and at the end
TypedContents ==
    {HttpPrefix \o <<97>>, HttpsPrefix \o <<97>>, HttpsPrefix \o <<97, 10, 98>>,
     HttpPrefix \o <<10, 10>>, FilePrefix \o <<97>>, FilePrefix \o <<10, 97>>,
     HttpUpper \o <<97>>, <<32>> \o HttpPrefix, SubSeq(HttpPrefix, 1, 6),
     <<10>> \o FilePrefix,
     <<>>, <<97>>, <<97, 10>>, <<97, 10, 98>>, <<10>>, <<10, 10>>, <<13, 10>>,
     <<13, 10, 10>>, <<97, 13, 10>>, <<97, 13, 98>>, <<10, 13>>,
     <<97, 11, 98>>, <<97, 8232, 98>>, <<97, 133>>, <<97, 32, 98>>}

\* n letters with a space at the 0-based index k
Spaced(n, k) == [i \in 1..n |-> IF i = k + 1 THEN 32 ELSE 97]

\* texts of up to MaxText letters and spaces
MaxText == 4
ShortTexts == UNION { [1..n -> {97, 32}] : n \in 0..MaxText }

\* max_length values: none, few, the default of line 284, and others
PreviewLengths == {0, 1, 2, 3, 4, 10, PreviewMaxLength, 90}

\* longer texts whose last space within the first max_length characters
\* lies just below, at and just above seven tenths of max_length
SevenTenths(m) == (7 * m) \div 10
LongTexts ==
    UNION { { Spaced(m + 5, k) :
                k \in {SevenTenths(m) - 1, SevenTenths(m), SevenTenths(m) + 1} } :
            m \in {10, PreviewMaxLength, 90} }

PreviewContents == ShortTexts \cup LongTexts

ClassifierFrame ==
    UNCHANGED <<storeVars, monitorVars, lockVars, settingsVars, export>>

\* _create_preview(content, max_length)
CreatePreviewCall(content, max_length) ==
    /\ derived' = [op |-> "create_preview", content |-> content,
                   max_length |-> max_length,
                   preview |-> CreatePreview(content, max_length),
                   content_type |-> "none"]
    /\ ClassifierFrame

\* _detect_content_type(content)
DetectContentTypeCall(content) ==
    /\ derived' = [op |-> "detect_content_type", content |-> content,
                   max_length |-> 0, preview |-> <<>>,
                   content_type |-> DetectContentType(content)]
    /\ ClassifierFrame

NextClassifier ==
    \/ \E c \in PreviewContents, m \in PreviewLengths : CreatePreviewCall(c, m)
    \/ \E c \in TypedContents : DetectContentTypeCall(c)

SpecClassifier == Init /\ [][NextClassifier]_vars

(***************************************************************************)
(* Properties of the store.  `call.pre` is the table the last operation    *)
(* started from and `rows` the table it left.                              *)
(***************************************************************************)
HoldsContent(table, content) ==
    \E i \in DOMAIN table : table[i].content = content

\* the last call was add(c) with a non-blank c that a live entry held
AddOfHeldContent ==
    /\ call.op = "add"
    /\ call.content \notin Blanks
    /\ HoldsContent(call.pre, call.content)

\* the last call was add(c) with a non-blank c that no live entry held
AddOfNewContent ==
    /\ call.op = "add"
    /\ call.content \notin Blanks
    /\ ~HoldsContent(call.pre, call.content)

\* the last call was update_content(id, c) with a live id and the content of
\* another live entry
UpdateIntoDuplicate ==
    /\ call.op = "update"
    /\ call.id \in DOMAIN call.pre
    /\ \E j \in DOMAIN call.pre :
          j # call.id /\ call.pre[j].content = call.content

\* C1: add(c) of a non-blank c that a live entry already holds returns true,
\* keeps count() and changes only that entry's timestamp, which becomes the
\* time of the call; every other field and every other entry is as before.
C1_AddHeldContentRefreshesTimestamp ==
    AddOfHeldContent =>
        /\ call.ok
        /\ GetTotalEntriesResult(rows) = GetTotalEntriesResult(call.pre)
        /\ DOMAIN rows = DOMAIN call.pre
        /\ \A i \in DOMAIN call.pre :
              rows[i] = IF call.pre[i].content = call.content
                        THEN [call.pre[i] EXCEPT !.timestamp = call.at]
                        ELSE call.pre[i]

\* C2: no two live entries have the same content_hash, nor the same content.
C2_ContentHashUnique ==
    \A i, j \in DOMAIN rows :
        i # j => /\ rows[i].content_hash # rows[j].content_hash
                 /\ rows[i].content # rows[j].content

\* C2 witness: an update into the content of another live entry was tried on
\* a table of two entries.
C2_Witness ==
    /\ UpdateIntoDuplicate
    /\ call.content \notin Blanks
    /\ GetTotalEntriesResult(rows) >= 2

\* C3 as stated: update_content into the content of a different live entry
\* returns true and leaves two live rows with the same content_hash.
C3_UpdateCreatesDuplicateHash ==
    UpdateIntoDuplicate =>
        /\ call.ok
        /\ \E i, j \in DOMAIN rows :
              i # j /\ rows[i].content_hash = rows[j].content_hash

\* C3 amended: update_content into the content of a different live entry
\* returns false and leaves every entry, and the id counter, as they were.
C3_UpdateIntoDuplicateRejected ==
    UpdateIntoDuplicate =>
        /\ ~call.ok
        /\ rows = call.pre
        /\ seq = call.preSeq

\* C3 witness: such an update was made while no connection held the write
\* lock, so the UNIQUE constraint was what rejected it.
C3_Witness ==
    /\ UpdateIntoDuplicate
    /\ ~call.preLeaked
    /\ call.pre[call.id].content # call.content

\* C4: add of an empty or whitespace-only content returns false and leaves
\* the entries, their timestamps, the count and the id counter unchanged.
C4_AddBlankRejected ==
    (call.op = "add" /\ call.content \in Blanks) =>
        /\ ~call.ok
        /\ rows = call.pre
        /\ GetTotalEntriesResult(rows) = GetTotalEntriesResult(call.pre)
        /\ seq = call.preSeq
        /\ Len(issued) = call.preSeq

\* C4 witness: add(" \n") was called on a table that holds an entry.
C4_Witness ==
    /\ call.op = "add"
    /\ call.content \in Blanks
    /\ call.content # <<>>
    /\ GetTotalEntriesResult(call.pre) >= 1

\* C5: the ids handed to inserted entries are strictly increasing over the
\* life of the store, so none is assigned twice, whatever was deleted since.
C5_IdsStrictlyIncreasing ==
    \A i, j \in DOMAIN issued : i < j => issued[i] < issued[j]

\* C5 witness: an entry was inserted after the entry with the highest id had
\* been removed.
C5_Witness ==
    /\ call.op = "add"
    /\ call.ok
    /\ Len(issued) >= 2
    /\ issued[Len(issued)] = call.id
    /\ issued[Len(issued) - 1] \notin DOMAIN call.pre

\* C6: every live entry's content_hash, preview, size_bytes and content_type
\* are those recomputed from its current content.
C6_DerivedFieldsMatchContent ==
    \A i \in DOMAIN rows :
        /\ rows[i].content_hash = Md5Hex(Utf8(rows[i].content))
        /\ rows[i].preview = CreatePreview(rows[i].content, PreviewMaxLength)
        /\ rows[i].size_bytes = Len(Utf8(rows[i].content))
        /\ rows[i].content_type = DetectContentType(rows[i].content)

\* C6 witness: a successful update changed an entry's preview, size and type.
C6_Witness ==
    /\ call.op = "update"
    /\ call.ok
    /\ rows[call.id].preview # call.pre[call.id].preview
    /\ rows[call.id].preview # rows[call.id].content
    /\ rows[call.id].size_bytes # Len(rows[call.id].content)
    /\ rows[call.id].content_type # call.pre[call.id].content_type

\* C7: add(c) of a non-blank c that no live entry holds returns true, raises
\* count() by one and creates one entry; get_by_id on its id returns an entry
\* with content c whose hash, preview and content_type match c.
C7_AddNewContentInserts ==
    AddOfNewContent =>
        /\ call.ok
        /\ GetTotalEntriesResult(rows) = GetTotalEntriesResult(call.pre) + 1
        /\ DOMAIN rows = DOMAIN call.pre \cup {call.id}
        /\ \A i \in DOMAIN call.pre : rows[i] = call.pre[i]
        /\ LET got == GetEntryByIdResult(rows, call.id)
           IN  /\ Len(got) = 1
               /\ got[1].content = call.content
               /\ rows[call.id].content_hash = ContentHash(call.content)
               /\ got[1].preview = CreatePreview(call.content, PreviewMaxLength)
               /\ got[1].content_type = DetectContentType(call.content)

\* C1 and C7 hold of every add made while no connection left open by an
\* earlier failure held the write lock.
AddSucceedsWhileUnlocked ==
    (call.op = "add" /\ call.content \notin Blanks /\ ~call.preLeaked) =>
        /\ C1_AddHeldContentRefreshesTimestamp
        /\ C7_AddNewContentInserts

\* C8: update_content with an empty or whitespace-only content, or with an
\* id no live entry has, returns false and leaves every entry unchanged.
C8_UpdateRejectedLeavesStore ==
    (call.op = "update" /\ (call.content \in Blanks \/ call.id \notin DOMAIN call.pre)) =>
        /\ ~call.ok
        /\ rows = call.pre
        /\ seq = call.preSeq

\* C8 witness: update_content named an id that is not live, with a non-blank
\* content, on a table that holds an entry and is not locked.
C8_Witness ==
    /\ call.op = "update"
    /\ call.content \notin Blanks
    /\ call.id \notin DOMAIN call.pre
    /\ GetTotalEntriesResult(call.pre) >= 1
    /\ ~call.preLeaked

(***************************************************************************)
(* Properties of the queries.  `call.result` is the sequence returned.     *)
(***************************************************************************)
\* every element of the result is a live entry with the fields get_all and
\* search select, and no entry is returned twice
LiveOnce(result) ==
    /\ \A k \in DOMAIN result :
          /\ result[k].id \in DOMAIN rows
          /\ result[k] = SelectColumns(rows[result[k].id])
    /\ \A k, m \in DOMAIN result : k # m => result[k].id # result[m].id

NewestFirst(result) ==
    \A k \in DOMAIN result :
        k < Len(result) => result[k].timestamp >= result[k + 1].timestamp

\* no live entry left out is newer than one that was returned
NoneNewerOmitted(result) ==
    \A i \in DOMAIN rows \ { result[k].id : k \in DOMAIN result } :
        \A k \in DOMAIN result : rows[i].timestamp <= result[k].timestamp

\* C9 as stated: for every limit, get_all(limit) returns at most limit
\* entries, each a live entry returned once, newest first, and none of the
\* entries left out is newer than a returned one.
C9_GetAllNewestWithinLimit ==
    call.op = "get_all" =>
        /\ Len(call.result) <= call.limit
        /\ LiveOnce(call.result)
        /\ NewestFirst(call.result)
        /\ NoneNewerOmitted(call.result)

\* C9 amended: the same for every limit >= 0; a negative limit returns every
\* live entry, each once, newest first.
C9_GetAllNewestWithinNonNegativeLimit ==
    call.op = "get_all" =>
        /\ call.limit >= 0 => Len(call.result) <= call.limit
        /\ call.limit < 0 => Len(call.result) = GetTotalEntriesResult(rows)
        /\ LiveOnce(call.result)
        /\ NewestFirst(call.result)
        /\ NoneNewerOmitted(call.result)

\* C9 witness: get_all(1) on two entries of different timestamps returned
\* one of them.
C9_Witness ==
    /\ call.op = "get_all"
    /\ call.limit = 1
    /\ Len(call.result) = 1
    /\ \E i \in DOMAIN rows : rows[i].timestamp < call.result[1].timestamp

\* q occurs in text as a literal substring, letter case included
Contains(text, q) ==
    \E k \in 0..(Len(text) - Len(q)) : SubSeq(text, k + 1, k + Len(q)) = q

\* C10: for a non-blank q, search(q, limit) returns, newest first and up to
\* limit, exactly the live entries whose content or preview contains q
\* literally: an entry that matches only under another letter case, or only
\* with "%" or "_" read as a wildcard, is not returned.
C10_SearchIsLiteralSubstring ==
    (call.op = "search" /\ call.content \notin Blanks) =>
        LET hits == { i \in DOMAIN rows :
                        \/ Contains(rows[i].content, call.content)
                        \/ Contains(rows[i].preview, call.content) }
        IN  /\ \A k \in DOMAIN call.result : call.result[k].id \in hits
            /\ Len(call.result) =
                 IF Cardinality(hits) < call.limit THEN Cardinality(hits)
                 ELSE call.limit
            /\ LiveOnce(call.result)
            /\ NewestFirst(call.result)
            /\ \A i \in hits \ { call.result[k].id : k \in DOMAIN call.result } :
                  \A k \in DOMAIN call.result :
                     rows[i].timestamp <= call.result[k].timestamp

\* the place of the entry with this id in a result, 0 when it is not there
PosOf(result, id) ==
    IF \E k \in DOMAIN result : result[k].id = id
    THEN CHOOSE k \in DOMAIN result : result[k].id = id
    ELSE 0

\* every entry of `part` is in `whole`, and the entries of `part` picked by
\* `pairs` stand in `whole` in the order they have in `part`
WithinInOrder(part, whole, pairs(_, _)) ==
    /\ \A k \in DOMAIN part : PosOf(whole, part[k].id) > 0
    /\ \A k, m \in DOMAIN part :
          (k < m /\ pairs(part[k], part[m])) =>
              PosOf(whole, part[k].id) < PosOf(whole, part[m].id)

AnyPair(a, b) == TRUE
DifferentTimestamps(a, b) == a.timestamp # b.timestamp

\* C11 as stated: every entry returned by search(q) (limit 100) is also
\* returned by get_all() (limit 1000), and the entries of search(q) appear in
\* the same relative order in both, entries of equal timestamp included; for
\* a blank q, search(q, limit) equals get_all(limit).
C11_SearchWithinGetAllSameOrder ==
    call.op = "search" =>
        /\ (call.content \notin Blanks /\ call.limit = SearchDefaultLimit) =>
              \A all \in GetAllResults(rows, GetAllDefaultLimit) :
                  WithinInOrder(call.result, all, AnyPair)
        /\ call.content \in Blanks =>
              \A all \in GetAllResults(rows, call.limit) : call.result = all

\* C11 amended: while the store holds at most 1000 entries, every entry
\* returned by search(q) is returned by get_all(), and entries of different
\* timestamps appear in the same relative order in both; for a blank q,
\* search(q, limit) is an answer get_all(limit) can give.
C11_SearchWithinGetAllUpToTies ==
    call.op = "search" =>
        /\ ( /\ call.content \notin Blanks
             /\ call.limit = SearchDefaultLimit
             /\ GetTotalEntriesResult(rows) <= GetAllDefaultLimit ) =>
              \A all \in GetAllResults(rows, GetAllDefaultLimit) :
                  WithinInOrder(call.result, all, DifferentTimestamps)
        /\ call.content \in Blanks =>
              call.result \in GetAllResults(rows, call.limit)

\* C11 witness: search(q), q not blank, with the default limit returned two
\* entries of different timestamps.
C11_Witness ==
    /\ call.op = "search"
    /\ call.content \notin Blanks
    /\ call.limit = SearchDefaultLimit
    /\ Len(call.result) = 2
    /\ call.result[1].timestamp # call.result[2].timestamp

\* what delete(id) is said to do to the store it started from
DeleteEffect ==
    /\ call.ok
    /\ GetEntryByIdResult(rows, call.id) = <<>>
    /\ \A i \in DOMAIN call.pre \ {call.id} :
          i \in DOMAIN rows /\ rows[i] = call.pre[i]
    /\ DOMAIN rows \subseteq DOMAIN call.pre
    /\ call.id \notin DOMAIN call.pre => rows = call.pre

\* C12: delete(id) returns true whether or not id is live; afterwards
\* get_by_id(id) is absent and every other entry is unchanged; when id was
\* not live the store is unchanged (so a second delete(id) changes nothing).
C12_DeleteRemovesOnlyThatEntry ==
    call.op = "delete" => DeleteEffect

\* the same while no earlier connection still holds the write lock
DeleteSucceedsWhileUnlocked ==
    (call.op = "delete" /\ ~call.preLeaked) => DeleteEffect

\* C13: from any reachable state, once clear_all() has returned true the
\* count is 0, the total size is 0, get_all() is empty and get_by_id is
\* absent for every id.
C13_ClearAllEmptiesStore ==
    (call.op = "clear" /\ call.ok) =>
        /\ GetTotalEntriesResult(rows) = 0
        /\ GetStorageSizeMbResult(rows) = FloatZero
        /\ GetAllResults(rows, GetAllDefaultLimit) = {<<>>}
        /\ \A i \in Ids : GetEntryByIdResult(rows, i) = <<>>

\* C13 witness: clear_all() returned true on a store that held two entries
\* of a total size above 0.
C13_Witness ==
    /\ call.op = "clear"
    /\ call.ok
    /\ GetTotalEntriesResult(call.pre) = 2
    /\ GetStorageSizeMbResult(call.pre) # FloatZero

WriteOps == {"add", "update", "delete", "clear"}

\* C14: a failure of the backing store during an operation never leaves the
\* operation as an exception: add, update, delete and clear return false,
\* get_all and search return the empty list, get_by_id returns absent, the
\* count is 0 and the total size is 0.
C14_StoreFailureNeverPropagates ==
    /\ call.failed =>
          /\ ~call.raised
          /\ call.op \in WriteOps => call.ok = FALSE
          /\ call.op \in {"get_all", "search", "get_by_id"} => call.result = <<>>
          /\ call.op = "count" => call.result = 0
          /\ call.op = "size_mb" => call.result = FloatZero
    /\ (call.op \in {"delete", "clear"} /\ call.preLeaked) => call.ok = FALSE

\* C14 witness: the count of a store that holds entries was asked while the
\* backing store failed.
C14_Witness ==
    /\ call.failed
    /\ call.op = "count"
    /\ GetTotalEntriesResult(rows) > 0

\* the ids whose entry the last operation was allowed to remove or rewrite
Targeted ==
    IF call.op = "clear" THEN DOMAIN call.pre
    ELSE IF call.op \in {"delete", "update"} THEN {call.id}
    ELSE {}

\* C15: a live entry stays live with unchanged content until delete on its
\* id, clear_all or update_content on its id; add never removes an existing
\* entry nor alters its content, and changes the timestamp of at most one
\* existing entry (nothing is evicted).
C15_EntriesStayUntilRemoved ==
    /\ \A i \in DOMAIN call.pre \ Targeted :
          /\ i \in DOMAIN rows
          /\ rows[i].content = call.pre[i].content
    /\ call.op = "add" =>
          /\ \A i \in DOMAIN call.pre :
                /\ i \in DOMAIN rows
                /\ rows[i] = [call.pre[i] EXCEPT !.timestamp = rows[i].timestamp]
          /\ Cardinality({ i \in DOMAIN call.pre :
                             rows[i].timestamp # call.pre[i].timestamp }) <= 1

\* C15 witness: add of a held content in a store of two entries moved the
\* timestamp of one of them.
C15_Witness ==
    /\ call.op = "add"
    /\ call.ok
    /\ Cardinality(DOMAIN call.pre) = 2
    /\ \E i \in DOMAIN call.pre : rows[i].timestamp # call.pre[i].timestamp

(***************************************************************************)
(* Properties of the clipboard monitor.                                    *)
(***************************************************************************)
\* C16: the value the clipboard holds when the monitor starts is recorded as
\* last_content, and no event is emitted for it for as long as the clipboard
\* keeps that value.
C16_BaselineNeverEmitted ==
    (base.read = "ok" /\ copies = base.copies) =>
        /\ base.value = clipboard
        /\ last_content = base.value
        /\ emitted = <<>>

\* C16 witness: the monitor started on a non-blank value and has polled the
\* clipboard, which still holds that value.
C16_Witness ==
    /\ base.read = "ok"
    /\ copies = base.copies
    /\ base.value \in {ClipA, ClipB}
    /\ poll.read = "ok"

\* the blank values the clipboard takes in the model
ClipBlanks == {<<>>, <<32>>}

\* what a poll (a read of the loop that returned a value) emits
PollEmitsIffNewAndNonBlank ==
    /\ poll.events # <<>> <=> (poll.value # poll.prev /\ poll.value \notin ClipBlanks)
    /\ poll.events \in {<<>>, <<poll.value>>}
    /\ ~poll.changed => poll.events = <<>>

\* C17 as stated: a poll emits if and only if the polled value differs from
\* last_content and is non-blank; the event carries the polled value; a poll
\* emits at most one event; while the clipboard keeps its value no further
\* event is emitted; and a change of the clipboard to a non-blank value B
\* that is still there at the next poll gives exactly one event carrying B
\* by that poll.
C17_PollEmitsOncePerChange ==
    poll.read = "ok" =>
        /\ PollEmitsIffNewAndNonBlank
        /\ (poll.changed /\ poll.value \notin ClipBlanks) =>
              poll.events = <<poll.value>>

\* C17 amended: the same, but a change to a non-blank B gives the one event
\* carrying B only when B differs from last_content, the value of the
\* previous read; when the clipboard has come back to that value between two
\* polls nothing is emitted.
C17_PollEmitsOncePerSeenChange ==
    poll.read = "ok" =>
        /\ PollEmitsIffNewAndNonBlank
        /\ (poll.changed /\ poll.value \notin ClipBlanks /\ poll.value # poll.prev) =>
              poll.events = <<poll.value>>
        /\ (poll.changed /\ poll.value = poll.prev) => poll.events = <<>>

\* C17 witness: the clipboard went from "a", which the monitor had read, to
\* "b", and the next poll emitted "b".
C17_Witness ==
    /\ poll.read = "ok"
    /\ poll.changed
    /\ poll.prev = ClipA
    /\ poll.events = <<ClipB>>

\* C18: a poll that reads a blank value different from last_content emits
\* nothing but makes it last_content; so the poll that next reads a
\* non-blank value X, be it the value held before the blank one, emits X.
C18_BlankIsRememberedNotEmitted ==
    poll.read = "ok" =>
        /\ (poll.value \in ClipBlanks /\ poll.value # poll.prev) =>
              /\ poll.events = <<>>
              /\ last_content = poll.value
        /\ (poll.prev \in ClipBlanks /\ poll.value \notin ClipBlanks) =>
              /\ poll.events = <<poll.value>>
              /\ last_content = poll.value

\* C18 witness: "a" was emitted, a blank value was polled after it, and the
\* poll that found "a" again emitted it a second time.
C18_Witness ==
    /\ poll.read = "ok"
    /\ poll.prev \in ClipBlanks
    /\ poll.events = <<ClipA>>
    /\ emitted = <<ClipA, ClipA>>

\* the monitor is in its loop, or has left it after stop() was called
LoopAliveUnlessStopped == pc \in {"check", "poll"} \/ stop_pc # "idle"

\* C19: no failure of a clipboard read, at the baseline read or at a later
\* poll, ends the monitor: after it the loop is still running (it will poll
\* again unless stop was requested) and last_content is what it was before
\* the failed read.
C19_ReadFailureNeverEndsMonitor ==
    /\ base.read = "error" =>
          /\ LoopAliveUnlessStopped
          /\ pc # "raised"
    /\ poll.read = "error" =>
          /\ LoopAliveUnlessStopped
          /\ pc # "raised"
          /\ last_content = poll.prev

\* the same for the reads of the loop only
PollFailureNeverEndsMonitor ==
    poll.read = "error" =>
        /\ LoopAliveUnlessStopped
        /\ pc # "raised"
        /\ last_content = poll.prev

\* C20: in every interleaving of stop() with the monitor thread, stop()
\* called before run() has executed its first statement included, once
\* stop() has set running to false the loop sees it at its next test of the
\* loop condition and leaves by itself: the thread is never terminated by
\* force.
C20_StopObservedAtNextLoopCheck ==
    /\ check.stop_set => check.seen = "false"
    /\ pc # "terminated"

\* the loop misses the request, and is terminated, only with the flag set
\* again by run() after stop() had cleared it
MissedStopOnlyAfterFlagOverwritten ==
    /\ (check.stop_set /\ check.seen = "true") => running
    /\ pc = "terminated" => running

\* stop() has been called
StopCalled == stop_pc # "idle"

\* the thread is killed only by the terminate() of a stop() whose grace wait
\* ran out on a running thread
TerminatedOnlyAfterGraceWait ==
    /\ (pc' = "terminated" /\ pc # "terminated")
          => (stop_pc = "expired" /\ IsRunning)
    /\ (stop_pc' = "expired" /\ stop_pc # "expired")
          => (stop_pc = "wait" /\ IsRunning)

\* once stop() has returned the thread emits nothing and stays ended
SilentAfterStopReturned ==
    stop_pc = "returned" =>
        /\ emitted' = emitted
        /\ queue' = queue \/ queue' = Tail(queue)
        /\ pc' = pc
        /\ stop_pc' = "returned"

\* C32: stop() always returns; it terminates the thread by force only when
\* the thread is still running after the grace wait that follows
\* running = False; after stop() was called the thread is eventually not
\* running, and it emits no event after stop() has returned.
C32_StopEndsMonitor ==
    /\ StopCalled ~> (stop_pc = "returned")
    /\ StopCalled ~> ~IsRunning
    /\ [](stop_pc = "returned" => ~IsRunning)
    /\ [][TerminatedOnlyAfterGraceWait]_vars
    /\ [][SilentAfterStopReturned]_vars

\* C32 witness: stop() has returned after terminating a thread that had
\* emitted an event
C32_Witness ==
    /\ stop_pc = "returned"
    /\ pc = "terminated"
    /\ emitted # <<>>

(***************************************************************************)
(* Properties of the monitor feeding the store.                            *)
(***************************************************************************)
\* the monitor has read the clipboard since its last change and the GUI
\* thread has handled every signal: nothing more happens to the store
\* unless the clipboard changes again
CaughtUp ==
    /\ pc = "check"
    /\ poll.read = "ok"
    /\ poll.copies = copies
    /\ queue = <<>>

\* C21 as stated: every non-blank value the clipboard has changed to while
\* the monitor runs ends up in a live entry, whatever the timing of the changes relative to the
\* polls; so once the monitor has caught up with a clipboard that changes no
\* more, every such value is held.
C21_EveryValueTakenIsStored ==
    CaughtUp => \A v \in taken : HoldsContent(rows, v)

\* C21 amended: every non-blank value that a poll reads and finds different
\* from last_content (it is then emitted) is eventually held by a live
\* entry.
C21_EveryValueEmittedIsStored ==
    \A v \in {ClipA, ClipB} :
        (\E k \in DOMAIN queue : queue[k] = v) ~> HoldsContent(rows, v)

\* C21 witness: both values were emitted and handled, and each is held by a
\* live entry.
C21_Witness ==
    /\ Len(emitted) >= 2
    /\ queue = <<>>
    /\ HoldsContent(rows, ClipA)
    /\ HoldsContent(rows, ClipB)

\* the store's last call is the add of the content of the entry that was
\* copied back to the clipboard, forwarded by on_clipboard_changed while
\* that entry was live and held the content
RecopiedEntryForwarded ==
    /\ recopy.forwarded
    /\ call.op = "add"
    /\ call.content = recopy.content
    /\ recopy.id \in DOMAIN call.pre
    /\ call.pre[recopy.id].content = recopy.content

\* C36: when the content of a live entry that was copied back to the
\* clipboard is forwarded to add, no entry is created, count() is unchanged,
\* only that entry's timestamp is refreshed, and no entry is newer.
C36_RecopyRefreshesOnly ==
    RecopiedEntryForwarded =>
        /\ DOMAIN rows = DOMAIN call.pre
        /\ Cardinality(DOMAIN rows) = Cardinality(DOMAIN call.pre)
        /\ rows = [call.pre EXCEPT ![recopy.id].timestamp = call.at]
        /\ \A i \in DOMAIN rows : rows[i].timestamp <= rows[recopy.id].timestamp

\* no connection of an earlier call was open when the add ran: the claim
\* holds
RecopyRefreshesWhileUnlocked ==
    (RecopiedEntryForwarded /\ ~call.preLeaked) => C36_RecopyRefreshesOnly

\* an older entry was copied back, forwarded and became the newest
RecopyMadeEntryNewest ==
    /\ RecopiedEntryForwarded
    /\ Cardinality(DOMAIN rows) = 2
    /\ rows[recopy.id].timestamp > call.pre[recopy.id].timestamp
    /\ \A i \in DOMAIN rows \ {recopy.id} :
           rows[i].timestamp < rows[recopy.id].timestamp

(***************************************************************************)
(* Properties of the single-instance lock.                                 *)
(***************************************************************************)
\* the live processes whose acquire() returned true and that have not
\* released
Holders ==
    { p \in Procs : /\ ProcessExists(p)
                    /\ acq[p].result = "true"
                    /\ lock_acquired[p] }

\* C22: in every interleaving of the steps of two processes that call
\* acquire(), at most one live process at a time has had acquire() return
\* true without having released.
C22_AtMostOneHolder ==
    Cardinality(Holders) <= 1

\* what acquire() of process p found in the lock file
FoundRunningPid(p) == acq[p].read.exists /\ acq[p].read.kind = "pid" /\ acq[p].running
FoundDeadPid(p) == acq[p].read.exists /\ acq[p].read.kind = "pid" /\ ~acq[p].running
FoundUnparsable(p) == acq[p].read.exists /\ acq[p].read.kind \in {"garbage", "empty"}

\* C23: acquire() returns false when the lock file records the PID of a
\* running process; when it records the PID of a dead process, or content
\* that is no number, acquire() removes the file, writes the caller's PID
\* and returns true.  (Stated of a call during which no other process
\* changes the lock file.)
C23_AcquireChecksRecordedPid ==
    \A p \in Procs :
        (acq[p].result # "none" /\ ~acq[p].disturbed) =>
            /\ FoundRunningPid(p) =>
                  /\ acq[p].result = "false"
                  /\ ~acq[p].removed
                  /\ acq[p].left = acq[p].read
            /\ (FoundDeadPid(p) \/ FoundUnparsable(p)) =>
                  /\ acq[p].result = "true"
                  /\ acq[p].removed
                  /\ acq[p].left.exists
                  /\ acq[p].left.kind = "pid"
                  /\ acq[p].left.pid = p

\* C23 witness: process 1 found a lock file that holds no number and took
\* the lock; process 2 then found the PID of process 1, which was running,
\* and was refused.
C23_Witness ==
    /\ FoundUnparsable(1) /\ acq[1].result = "true" /\ ~acq[1].disturbed
    /\ FoundRunningPid(2) /\ acq[2].result = "false" /\ ~acq[2].disturbed
    /\ acq[2].read.pid = 1

\* process p has left main() by itself after its acquire() returned true
ExitedAfterAcquire(p) == ppc[p] = "exited" /\ acq[p].result = "true"

\* release() was called, returned and left no lock file
Released(p) == rel[p].called /\ rel[p].returned /\ ~rel[p].left.exists

\* C24 as stated: on every path by which main() ends after acquire()
\* returned true, release() is called and leaves no lock file.
C24_EveryExitReleases ==
    \A p \in Procs : ExitedAfterAcquire(p) => Released(p)

\* C24 amended: release() is called and leaves no lock file when main() ends
\* by the normal quit or by an Exception raised during startup; when startup
\* is left by KeyboardInterrupt or SystemExit release() is not called.
C24_QuitAndStartupExceptionRelease ==
    \A p \in Procs :
        ExitedAfterAcquire(p) =>
            /\ rel[p].path \in {"quit", "exception"} => Released(p)
            /\ rel[p].path = "interrupt" => ~rel[p].called

\* C24 witness: process 1 ended by the normal quit and process 2 by an
\* Exception during startup, each after having acquired the lock.
C24_Witness ==
    /\ ExitedAfterAcquire(1) /\ rel[1].path = "quit"
    /\ ExitedAfterAcquire(2) /\ rel[2].path = "exception"

\* acquire() of process p has returned false
Refused(p) == acq[p].result = "false"

\* C37: a process whose acquire() returned false has removed no lock file,
\* has opened none for writing, and main() has ended without calling
\* release(); a call it made alone left the file as it found it; and
\* release() reaches os.remove only with lock_acquired true.
C37_RefusedInstanceLeavesLockAlone ==
    \A p \in Procs :
        /\ Refused(p) =>
              /\ ~acq[p].removed
              /\ fd[p] = 0
              /\ ~lock_acquired[p]
              /\ ~rel[p].called
              /\ ppc[p] = "exited"
              /\ ~acq[p].disturbed => acq[p].left = acq[p].read
        /\ ppc[p] = "release_remove" => lock_acquired[p]

\* C37 witness: process 2 was refused and has ended while process 1 runs,
\* and the lock file still records process 1.
C37_Witness ==
    /\ Refused(2) /\ ppc[2] = "exited"
    /\ ppc[1] = "running" /\ lock_acquired[1]
    /\ lockfile.exists /\ lockfile.kind = "pid" /\ lockfile.pid = 1

(***************************************************************************)
(* Properties of the settings.  `scall.before` is the recent_searches list *)
(* the last operation started from.                                        *)
(***************************************************************************)
\* what add_recent_search(t) makes of a full list that lacks t
OldestDropped ==
    (Len(scall.before) = RecentSearchesCap /\ ~ListHas(scall.before, scall.arg))
        => RecentSearches =
              <<scall.arg>> \o SubSeq(scall.before, 1, RecentSearchesCap - 1)

\* C25 as stated: after any call add_recent_search(t), whatever the list
\* held before, recent_searches has at most 20 entries, and a new term added
\* to a full list drops the last term.
C25_AnyAddKeepsCap ==
    scall.op = "add_recent_search"
        => Len(RecentSearches) <= RecentSearchesCap /\ OldestDropped

\* C25 amended: after any call add_recent_search(t) with a non-blank t,
\* whatever the list held before, recent_searches has at most 20 entries,
\* and a new term added to a full list drops the last term.
C25_NonBlankAddKeepsCap ==
    (scall.op = "add_recent_search" /\ ~IsBlank(scall.arg))
        => Len(RecentSearches) <= RecentSearchesCap /\ OldestDropped

\* a new term was added to a full list
C25_Witness ==
    /\ scall.op = "add_recent_search"
    /\ ~IsBlank(scall.arg)
    /\ Len(scall.before) = RecentSearchesCap
    /\ ~ListHas(scall.before, scall.arg)
    /\ Len(RecentSearches) = RecentSearchesCap
    /\ RecentSearches[1] = scall.arg

\* C26: after any sequence of settings operations, reset_to_defaults()
\* leaves every setting equal to its default value, recent_searches and
\* favorite_entries being empty lists.
C26_ResetRestoresDefaults ==
    scall.op = "reset_to_defaults"
        => /\ DOMAIN settings = DefaultKeys
           /\ \A k \in DOMAIN DefaultSettings : settings[k] = DefaultSettings[k]
           /\ RecentSearches = <<>>
           /\ FavoriteEntries = <<>>

(***************************************************************************)
(* Properties of the export.  `export.pre` is the table the export started *)
(* from.                                                                   *)
(***************************************************************************)
ExportKeys == {"content", "timestamp", "content_type", "size_bytes"}

\* the document holds exactly one record for every row of the table
OneRecordPerEntry(document, table) ==
    /\ Len(document) = Cardinality(DOMAIN table)
    /\ \A i \in DOMAIN table :
          \E k \in DOMAIN document :
             /\ document[k].content = table[i].content
             /\ document[k].timestamp = table[i].timestamp
             /\ document[k].content_type = table[i].content_type
             /\ document[k].size_bytes = table[i].size_bytes

\* the last operation on the store was the read of an export that went on
\* to report success
JustExported == export.state = "written" /\ call.op = "get_all"

\* C27: for every store state, an export that reports success has written
\* exactly one record per live entry, each with content, timestamp,
\* content_type and size_bytes only, and has left the store unchanged.
C27_ExportWritesEveryEntry ==
    JustExported
        => /\ OneRecordPerEntry(export.document, export.pre)
           /\ \A k \in DOMAIN export.document :
                 DOMAIN export.document[k] = ExportKeys
           /\ rows = export.pre

\* the same for the exports whose read of the store did not fail (which
\* holds of tables below the default limit of get_all_entries)
ExportOfSmallTableComplete ==
    ~call.failed => C27_ExportWritesEveryEntry

(***************************************************************************)
(* Properties of the two pure helpers.  `derived` holds the arguments and  *)
(* the value of the last evaluation.                                       *)
(***************************************************************************)
\* the text goes on after a line boundary ("\r\n" being one boundary)
MoreThanOneLine(content) ==
    \E i \in 1..Len(content) :
        /\ IsLineBreak(content[i])
        /\ i < Len(content)
        /\ ~(content[i] = 13 /\ content[i + 1] = 10 /\ i + 1 = Len(content))

IsUrl(content) ==
    StartsWith(content, HttpPrefix) \/ StartsWith(content, HttpsPrefix)
IsFile(content) == StartsWith(content, FilePrefix)

\* C28: detect_content_type returns exactly one of url, file, multiline and
\* text, by the first of these that matches: url for a text that starts with
\* http:// or https://, file for one that starts with file://, multiline for
\* one of more than one line, text otherwise.
C28_FirstMatchDecidesType ==
    derived.op = "detect_content_type" =>
        LET c == derived.content
            t == derived.content_type
        IN  /\ t \in {"url", "file", "multiline", "text"}
            /\ IsUrl(c) => t = "url"
            /\ (~IsUrl(c) /\ IsFile(c)) => t = "file"
            /\ (~IsUrl(c) /\ ~IsFile(c) /\ MoreThanOneLine(c)) => t = "multiline"
            /\ (~IsUrl(c) /\ ~IsFile(c) /\ ~MoreThanOneLine(c)) => t = "text"

\* a text of several lines that starts with https:// was classified as url
C28_Witness ==
    /\ derived.op = "detect_content_type"
    /\ StartsWith(derived.content, HttpsPrefix)
    /\ MoreThanOneLine(derived.content)
    /\ derived.content_type = "url"

\* the preview that the description gives for a content longer than
\* max_length: the first max_length characters, cut back to just before
\* their last space when its 0-based index exceeds 70% of max_length,
\* followed by "..."
DescribedPreview(content, max_length) ==
    LET first == SubSeq(content, 1, max_length)
        spaces == { k \in 0..(Len(first) - 1) : first[k + 1] = 32 }
        last == CHOOSE k \in spaces : \A j \in spaces : j <= k
    IN  IF spaces # {} /\ 10 * last > 7 * max_length
        THEN SubSeq(first, 1, last) \o <<46, 46, 46>>
        ELSE first \o <<46, 46, 46>>

\* C29: for every content and max_length, create_preview returns content
\* unchanged when len(content) <= max_length, the described truncation
\* otherwise, and never more than max_length + 3 characters.
C29_PreviewAsDescribed ==
    derived.op = "create_preview" =>
        /\ Len(derived.content) <= derived.max_length
              => derived.preview = derived.content
        /\ Len(derived.content) > derived.max_length
              => derived.preview =
                    DescribedPreview(derived.content, derived.max_length)
        /\ Len(derived.preview) <= derived.max_length + 3

\* the same where max_length * 0.7 is not rounded below an integer
PreviewAsDescribedAwayFromRounding ==
    ~ProductBelowExact(derived.max_length) => C29_PreviewAsDescribed

(***************************************************************************)
(* Properties of failing operations.                                       *)
(***************************************************************************)
\* C30: a writing operation that failed has left the persisted entries as
\* they were before the call, whichever step raised, and they stay so until
\* the next operation: what the operation had written is not in the table
\* that later operations read, also not after the connection it left open
\* has been closed.
C30_FailedWriteLeavesStoreAsItWas ==
    (call.failed /\ call.op \in WriteOps) =>
        /\ ~call.ok
        /\ rows = call.pre
        /\ seq = call.preSeq

\* add raised between its INSERT and its commit: the connection it left
\* open holds the new entry, the table that operations read does not
C30_Witness ==
    /\ call.failed
    /\ ~call.ok
    /\ call.op = "add"
    /\ uncommitted # <<>>
    /\ HoldsContent(uncommitted[1], call.content)
    /\ ~HoldsContent(rows, call.content)

(***************************************************************************)
(* Properties of the connections.                                          *)
(***************************************************************************)
\* C33: every store operation closes the connection it opened before it
\* returns, on every path; no connection or open transaction outlives the
\* call that opened it.
C33_NoConnectionOutlivesItsCall == ~leaked

(***************************************************************************)
(* Properties of update_entry_content and of the reading operations.       *)
(***************************************************************************)
\* what a successful update_content(id, new_content) is said to change
UpdateEffect ==
    /\ DOMAIN rows = DOMAIN call.pre
    /\ GetTotalEntriesResult(rows) = GetTotalEntriesResult(call.pre)
    /\ rows[call.id].id = call.id
    /\ rows[call.id].timestamp = call.pre[call.id].timestamp
    /\ rows[call.id].content = call.content
    /\ rows[call.id].content_hash = ContentHash(call.content)
    /\ rows[call.id].preview = CreatePreview(call.content, PreviewMaxLength)
    /\ rows[call.id].size_bytes = SizeBytes(call.content)
    /\ rows[call.id].content_type = DetectContentType(call.content)
    /\ \A i \in DOMAIN call.pre \ {call.id} : rows[i] = call.pre[i]

\* the last call was update_content(id, c) with the content entry id holds
UpdateToOwnContent ==
    /\ call.op = "update"
    /\ call.id \in DOMAIN call.pre
    /\ call.pre[call.id].content = call.content

\* C34: a successful update_content(id, new_content) changes only the
\* content, content_hash, preview, size_bytes and content_type of entry id;
\* its id and timestamp, the count and every other entry are unchanged; and
\* updating an entry to its own current content succeeds and changes nothing.
C34_UpdateChangesContentOnly ==
    /\ (call.op = "update" /\ call.ok) => UpdateEffect
    /\ UpdateToOwnContent => (call.ok /\ rows = call.pre)

\* the same while no earlier connection still holds the write lock
UpdateAsClaimedWhileUnlocked ==
    ~call.preLeaked => C34_UpdateChangesContentOnly

ReadOps == {"get_all", "search", "get_by_id", "count", "size_mb"}

\* C35: get_all, search, get_by_id, count and total_size_mb never change the
\* store: the live entries with all their fields and the next id to be
\* assigned are as before the call; and get_by_id returns the live entry
\* with that id, or absent when there is none.
C35_ReadsLeaveStoreAlone ==
    call.op \in ReadOps =>
        /\ rows = call.pre
        /\ seq = call.preSeq
        /\ Len(issued) = call.preSeq
        /\ call.op = "get_by_id" =>
              IF call.id \in DOMAIN call.pre
              THEN /\ Len(call.result) = 1
                   /\ call.result[1].id = call.id
                   /\ \A f \in DOMAIN call.result[1] :
                         call.result[1][f] = call.pre[call.id][f]
              ELSE call.result = <<>>

\* get_by_id returned a live entry written at an earlier time, while another
\* entry was live too
C35_Witness ==
    /\ call.op = "get_by_id"
    /\ call.id \in DOMAIN rows
    /\ call.result # <<>>
    /\ rows[call.id].timestamp < call.at
    /\ GetTotalEntriesResult(rows) >= 2

(***************************************************************************)
(* Properties of the recent searches.                                      *)
(***************************************************************************)
NoDuplicates(list) ==
    \A i, j \in 1..Len(list) : list[i] = list[j] => i = j

\* the items of the list other than x, in their order
Others(list, x) == SelectSeq(list, LAMBDA y : y # x)

\* C38: add_recent_search on a list without duplicates leaves a list without
\* duplicates (so any sequence of such calls does); a non-blank t is then at
\* index 0 and occurs once, the other terms keeping their relative order; a
\* blank t returns false and leaves the list unchanged.
C38_AddKeepsListDuplicateFree ==
    (scall.op = "add_recent_search" /\ NoDuplicates(scall.before)) =>
        /\ NoDuplicates(RecentSearches)
        /\ ~IsBlank(scall.arg) =>
              /\ RecentSearches[1] = scall.arg
              /\ Cardinality({ i \in 1..Len(RecentSearches) :
                                 RecentSearches[i] = scall.arg }) = 1
              /\ Tail(RecentSearches) =
                    SubSeq(Others(scall.before, scall.arg), 1,
                           Len(RecentSearches) - 1)
        /\ IsBlank(scall.arg) =>
              /\ ~scall.result
              /\ RecentSearches = scall.before

\* a term listed further down was searched again and moved to the front
C38_Witness ==
    /\ scall.op = "add_recent_search"
    /\ NoDuplicates(scall.before)
    /\ Len(scall.before) >= 2
    /\ ListHas(scall.before, scall.arg)
    /\ scall.before[1] # scall.arg
    /\ RecentSearches[1] = scall.arg
    /\ Len(RecentSearches) = Len(scall.before)

(***************************************************************************)
(* Properties of the application from startup to exit.                     *)
(***************************************************************************)
\* C31: when init_database raises in ClipboardStorage(), the exception
\* leaves the constructor and reaches main(), no operation on the store
\* follows, the monitor thread is never started, and release() has been
\* called and has removed the lock file when the process has ended.
C31_StorageFailureEndsStartup ==
    app.storage = "failed" =>
        /\ call.op = "init_database" /\ call.raised
        /\ rows = call.pre
        /\ pc = "new" /\ emitted = <<>> /\ stop_pc = "idle"
        /\ rel[App].called /\ rel[App].path = "exception"
        /\ ppc[App] \in {"release_check", "release_remove", "exited"}
        /\ ppc[App] = "exited" =>
              /\ Released(App)
              /\ ~lockfile.exists
              /\ ~lock_acquired[App]

\* C31 witness: the process has ended after ClipboardStorage() failed; it had
\* taken the lock over from a stale lock file
C31_Witness ==
    /\ app.storage = "failed"
    /\ ppc[App] = "exited"
    /\ acq[App].result = "true" /\ acq[App].removed
    /\ ~lockfile.exists

\* release() was called on the quit path
ReleaseOnQuit == rel[App].called /\ rel[App].path = "quit"

\* a run of cleanup_and_quit after the first one is under way
SecondCleanup == InCleanup /\ app.cleanups >= 1

\* C39: on the quit path the monitor thread is not running when release()
\* is called; a second run of cleanup_and_quit, from the aboutToQuit
\* handler, changes neither the monitor, the store nor the lock; and closing
\* the main window leaves the monitor and the lock as they are.
C39_MonitorStoppedBeforeRelease ==
    /\ [](ReleaseOnQuit => (~IsRunning /\ app.cleanups = 2))
    /\ [][SecondCleanup =>
             UNCHANGED <<pc, stop_pc, running, emitted, queue, storeVars,
                         lockfile, lock_acquired>>]_vars
    /\ [][(app.window = "shown" /\ app'.window = "hidden") =>
             UNCHANGED <<monitorVars, storeVars, lockfile, ppc, fd,
                         lock_acquired, acq, rel>>]_vars
    /\ []((ppc[App] = "running" /\ app.window = "hidden") =>
             /\ stop_pc = "idle"
             /\ lock_acquired[App]
             /\ lockfile = LockFileOf("pid", App, lockfile.ino))

\* C39 witness: the process has ended by the quit path with the window
\* hidden; the monitor had emitted and was stopped, cleanup_and_quit ran
\* twice and the lock file is gone
C39_Witness ==
    /\ ppc[App] = "exited"
    /\ ReleaseOnQuit
    /\ app.cleanups = 2
    /\ app.window = "hidden"
    /\ stop_pc = "returned" /\ emitted # <<>>
    /\ ~lockfile.exists

=============================================================================
